---- MODULE Spec2Model ----
(***************************************************************************)
(* Route profitability bot: the route scorer (analyzeRoute, getTicketPrice *)
(* and the six cost functions) and the scan orchestrator (runAnalysis) of  *)
(* src/src/airlineClient.js, second revision of the file (lines 348-858).  *)
(*                                                                         *)
(* JavaScript values.  A field that may be null/undefined is a sequence:   *)
(* <<>> is null/undefined, <<v>> is the value v.  A string is a sequence   *)
(* of one-character strings, so <<>> is both null and "" (the code only    *)
(* tests such fields for truthiness, where the two agree).  A JS number    *)
(* that results from arithmetic is a record [k, v]: k = "num" with the     *)
(* integer v, or k = "nan", "inf", "ninf".  Arithmetic is exact (rational, *)
(* over a common denominator); the rounding error of IEEE doubles is not   *)
(* modelled.                                                               *)
(***************************************************************************)
EXTENDS Integers, Sequences, FiniteSets, TLC

\* ---------------------------------------------------------------- bounds
\* longest list of aircraft options in one route offer
MaxOptions == 2
\* longest owned-aircraft list handed to analyzeRoute
MaxPlanes == 1

\* ------------------------------------------------------- program constants
FUEL_UNIT_COST_E4 == 43
ASCEND_FUEL_BURN_MULTIPLIER_1 == 32
ASCEND_FUEL_BURN_MULTIPLIER_2 == 13
ASCEND_FUEL_BURN_MULTIPLIER_3 == 2
CREW_UNIT_COST == 12
BASE_INFLIGHT_COST == 20
DEFAULT_LOAD_FACTOR == 1
DEFAULT_QUALITY == 60
MAINTENANCE_PER_SEAT == 150
durationCostPerHourByStar == <<0, 1, 4, 8, 13, 20>>
baseSlotFees == <<0, 50, 50, 80, 150, 250, 350, 500>>

airplaneTypeMultiplierMap ==
    [t \in {"LIGHT", "SMALL", "REGIONAL", "MEDIUM", "LARGE", "X_LARGE", "JUMBO", "SUPERSONIC"} |->
        CASE t = "LIGHT" -> 1 [] t = "SMALL" -> 1 [] t = "REGIONAL" -> 3
          [] t = "MEDIUM" -> 8 [] t = "LARGE" -> 12 [] t = "X_LARGE" -> 15
          [] t = "JUMBO" -> 18 [] t = "SUPERSONIC" -> 12]

\* ------------------------------------------------------------- JS values
Null == <<>>
Has(x) == Len(x) > 0

Num(n) == [k |-> "num", v |-> n]
NaN == [k |-> "nan", v |-> 0]
PosInf == [k |-> "inf", v |-> 0]
NegInf == [k |-> "ninf", v |-> 0]

\* a > b on JS numbers: every comparison with NaN is false
Gt(a, b) ==
    CASE a.k = "nan" \/ b.k = "nan" -> FALSE
      [] a.k = "inf" -> b.k # "inf"
      [] a.k = "ninf" -> FALSE
      [] OTHER -> b.k = "ninf" \/ (b.k = "num" /\ a.v > b.v)

\* a >= b on JS numbers
Ge(a, b) ==
    CASE a.k = "nan" \/ b.k = "nan" -> FALSE
      [] OTHER -> ~Gt(b, a)

\* Math.min(a, b) and Math.min(...list) on integers; Math.min() of nothing is +Infinity
Min2(a, b) == IF a <= b THEN a ELSE b

RECURSIVE MathMin(_)
MathMin(s) ==
    IF Len(s) = 1 THEN s[1] ELSE Min2(s[1], MathMin(Tail(s)))

\* a rounding that drops the fraction instead of rounding to nearest
MathRoundDown(n, d) == n \div d

\* Math.round(n / d) for d > 0: the nearest integer, halves rounded up
MathRound(n, d) == (2 * n + d) \div (2 * d)

\* ---------------------------------------------------------------- strings
IsSpace(c) == c = " "

ToLowerChar(c) ==
    CASE c = "A" -> "a" [] c = "B" -> "b" [] OTHER -> c

ToLowerCase(s) == [i \in 1..Len(s) |-> ToLowerChar(s[i])]

RECURSIVE TrimStart(_)
TrimStart(s) ==
    IF s # <<>> /\ IsSpace(Head(s)) THEN TrimStart(Tail(s)) ELSE s

RECURSIVE TrimEnd(_)
TrimEnd(s) ==
    IF s # <<>> /\ IsSpace(s[Len(s)]) THEN TrimEnd(SubSeq(s, 1, Len(s) - 1)) ELSE s

Trim(s) == TrimEnd(TrimStart(s))

\* String.prototype.includes: sub occurs in s as a contiguous run
Includes(s, sub) ==
    \E i \in 0..(Len(s) - Len(sub)) : SubSeq(s, i + 1, i + Len(sub)) = sub

Digits == <<"0", "1", "2", "3", "4", "5", "6", "7", "8", "9">>

IsDigit(c) == \E i \in DOMAIN Digits : Digits[i] = c

DigitOf(c) == (CHOOSE i \in DOMAIN Digits : Digits[i] = c) - 1

\* the number the leading digits of s spell, after the digits read so far
RECURSIVE LeadingDigits(_, _)
LeadingDigits(s, acc) ==
    IF s = <<>> \/ ~IsDigit(Head(s)) THEN acc
    ELSE LeadingDigits(Tail(s), 10 * acc + DigitOf(Head(s)))

\* parseInt(s, 10): leading white space, an optional sign, then digits up to
\* the first other character; NaN when there is no digit (also for undefined)
parseInt10(s) ==
    LET t == TrimStart(s)
        signed == t # <<>> /\ t[1] \in {"-", "+"}
        body == IF signed THEN Tail(t) ELSE t
    IN  IF body = <<>> \/ ~IsDigit(Head(body)) THEN NaN
        ELSE IF signed /\ t[1] = "-" THEN Num(0 - LeadingDigits(body, 0))
        ELSE Num(LeadingDigits(body, 0))

\* s without its leading digits
RECURSIVE DropDigits(_)
DropDigits(s) ==
    IF s # <<>> /\ IsDigit(Head(s)) THEN DropDigits(Tail(s)) ELSE s

\* the end of a decimal literal: nothing, or an exponent part
IsExponentOrEnd(e) ==
    \/ e = <<>>
    \/ /\ Head(e) \in {"e", "E"}
       /\ LET f == Tail(e)
               g == IF f # <<>> /\ Head(f) \in {"+", "-"} THEN Tail(f) ELSE f
           IN  g # <<>> /\ IsDigit(Head(g)) /\ DropDigits(g) = <<>>

\* Infinity, digits with an optional fraction, or a fraction alone
IsUnsignedDecimal(u) ==
    \/ u = <<"I", "n", "f", "i", "n", "i", "t", "y">>
    \/ /\ u # <<>>
       /\ LET a == DropDigits(u)
           IN  IF a # u
               THEN IF a # <<>> /\ Head(a) = "."
                    THEN IsExponentOrEnd(DropDigits(Tail(a)))
                    ELSE IsExponentOrEnd(a)
               ELSE /\ Head(u) = "."
                    /\ Len(u) > 1
                    /\ IsDigit(u[2])
                    /\ IsExponentOrEnd(DropDigits(Tail(u)))

RadixDigits(c) ==
    CASE c \in {"x", "X"} -> {Digits[i] : i \in DOMAIN Digits}
                                \cup {"a", "b", "c", "d", "e", "f", "A", "B", "C", "D", "E", "F"}
      [] c \in {"o", "O"} -> {Digits[i] : i \in 1..8}
      [] c \in {"b", "B"} -> {"0", "1"}
      [] OTHER -> {}

\* 0x.., 0o.., 0b..
IsRadixLiteral(t) ==
    /\ Len(t) >= 3
    /\ t[1] = "0"
    /\ \A i \in 3..Len(t) : t[i] \in RadixDigits(t[2])

\* isNaN(s) on a string: Number(s) is NaN unless s, trimmed, is empty, a
\* signed decimal literal or an unsigned literal of another radix
isNaN(s) ==
    LET t == Trim(s)
        u == IF t # <<>> /\ Head(t) \in {"+", "-"} THEN Tail(t) ELSE t
    IN  ~(t = <<>> \/ IsRadixLiteral(t) \/ IsUnsignedDecimal(u))

\* ------------------------------------------------------ exact arithmetic
Abs(n) == IF n < 0 THEN 0 - n ELSE n

RECURSIVE GCD(_, _)
GCD(a, b) == IF b = 0 THEN a ELSE GCD(b, a % b)

\* the fraction n/d (d > 0) in lowest terms
Frac(n, d) ==
    LET g == GCD(Abs(n), d)
    IN  IF g = 0 THEN [n |-> 0, d |-> 1] ELSE [n |-> n \div g, d |-> d \div g]

FracAdd(a, b) == Frac(a.n * b.d + b.n * a.d, a.d * b.d)
FracSub(a, b) == Frac(a.n * b.d - b.n * a.d, a.d * b.d)

\* ------------------------------------------------------------ cost model
\* twice the fuel units of one flight (the code halves the distance in the
\* first three bands and doubles the sum for the round trip)
FuelUnitsRoundTrip(distance, fuelBurn) ==
    IF distance <= 360 THEN
        distance * fuelBurn * ASCEND_FUEL_BURN_MULTIPLIER_1 + distance * fuelBurn
    ELSE IF distance <= 500 THEN
        360 * fuelBurn * ASCEND_FUEL_BURN_MULTIPLIER_1
        + (distance - 360) * fuelBurn * ASCEND_FUEL_BURN_MULTIPLIER_2
        + distance * fuelBurn
    ELSE IF distance <= 2000 THEN
        360 * fuelBurn * ASCEND_FUEL_BURN_MULTIPLIER_1
        + 500 * fuelBurn * ASCEND_FUEL_BURN_MULTIPLIER_2
        + (distance - 360 - 500) * fuelBurn * ASCEND_FUEL_BURN_MULTIPLIER_3
        + distance * fuelBurn
    ELSE
        2 * (180 * fuelBurn * ASCEND_FUEL_BURN_MULTIPLIER_1
             + 250 * fuelBurn * ASCEND_FUEL_BURN_MULTIPLIER_2
             + 1000 * fuelBurn * ASCEND_FUEL_BURN_MULTIPLIER_3
             + (distance - 180 - 250 - 1000) * fuelBurn)

\* loadFactorMultiplier = 0.7 + 0.3 * loadFactor, in tenths
calculateFuelCost(distance, fuelBurn, frequency, loadFactor) ==
    Frac(FuelUnitsRoundTrip(distance, fuelBurn) * FUEL_UNIT_COST_E4 * frequency
           * (7 + 3 * loadFactor),
         100000)

\* a crew cost of the outbound flights only
calculateCrewCostOneWay(capacity, durationMinutes, frequency) ==
    Frac(capacity * durationMinutes * CREW_UNIT_COST * frequency, 60)

calculateCrewCost(capacity, durationMinutes, frequency) ==
    Frac(capacity * durationMinutes * CREW_UNIT_COST * 2 * frequency, 60)

\* baseAirports[iata] is truthy: the key is present and is not the number 0
IsBaseIata(baseAirports, iata) ==
    \E i \in DOMAIN baseAirports :
        /\ baseAirports[i].iata = iata
        /\ (baseAirports[i].fmt = "obj" \/ baseAirports[i].id # 0)

TypeMultiplier(airplaneType) ==
    IF Has(airplaneType) /\ airplaneType[1] \in DOMAIN airplaneTypeMultiplierMap
    THEN airplaneTypeMultiplierMap[airplaneType[1]] ELSE 1

\* slot fee of one endpoint, in fifths (the home-base discount is 0.8)
SlotFeeFifths(airport, airplaneType, baseAirports) ==
    baseSlotFees[Min2(airport.size, 7) + 1] * TypeMultiplier(airplaneType)
      * (IF IsBaseIata(baseAirports, airport.iata) THEN 4 ELSE 5)

LandingFee(airport, capacity) ==
    capacity * (IF airport.size <= 3 THEN 3 ELSE airport.size)

calculateAirportFees(capacity, airplaneType, fromAirport, toAirport, baseAirports, frequency) ==
    Frac((SlotFeeFifths(fromAirport, airplaneType, baseAirports)
          + SlotFeeFifths(toAirport, airplaneType, baseAirports)
          + 5 * LandingFee(fromAirport, capacity)
          + 5 * LandingFee(toAirport, capacity)) * frequency,
         5)

\* lifespan # 0 here; a zero lifespan is handled where the score is formed
calculateDepreciation(price, lifespan) ==
    IF lifespan > 0 THEN Frac(price, lifespan) ELSE Frac(0 - price, 0 - lifespan)

calculateMaintenance(capacity) == Frac(capacity * MAINTENANCE_PER_SEAT, 1)

calculateServiceSupplies(durationMinutes, soldSeats, frequency) ==
    LET star == DEFAULT_QUALITY \div 20
        durationCost == durationCostPerHourByStar[Min2(star, 5) + 1]
    IN  Frac((BASE_INFLIGHT_COST * 60 + durationCost * durationMinutes) * 2
               * soldSeats * frequency,
             60)

\* a total that takes the depreciation off instead of adding it
TotalWeeklyCostLessDepreciation(routeData, plane, stats, fromAirport, toAirport, baseAirports) ==
    LET F == plane.maxFrequency[1]
        C == plane.capacity[1]
        durationMinutes == plane.duration[1]
        soldSeats == C * DEFAULT_LOAD_FACTOR
        fuelCost == calculateFuelCost(routeData.distance, stats.fuelBurn[1], F, DEFAULT_LOAD_FACTOR)
        crewCost == calculateCrewCost(C, durationMinutes, F)
        airportFees == calculateAirportFees(C, stats.airplaneType, fromAirport, toAirport, baseAirports, F)
        depreciation == calculateDepreciation(stats.price[1], stats.lifespan[1])
        maintenance == calculateMaintenance(C)
        serviceSupplies == calculateServiceSupplies(durationMinutes, soldSeats, F)
    IN  FracAdd(FracAdd(FracSub(FracAdd(FracAdd(fuelCost, crewCost), airportFees),
                                depreciation), maintenance), serviceSupplies)

\* totalWeeklyCost of one option whose inputs are all present, lifespan # 0
TotalWeeklyCost(routeData, plane, stats, fromAirport, toAirport, baseAirports) ==
    LET F == plane.maxFrequency[1]
        C == plane.capacity[1]
        durationMinutes == plane.duration[1]
        soldSeats == C * DEFAULT_LOAD_FACTOR
        fuelCost == calculateFuelCost(routeData.distance, stats.fuelBurn[1], F, DEFAULT_LOAD_FACTOR)
        crewCost == calculateCrewCost(C, durationMinutes, F)
        airportFees == calculateAirportFees(C, stats.airplaneType, fromAirport, toAirport, baseAirports, F)
        depreciation == calculateDepreciation(stats.price[1], stats.lifespan[1])
        maintenance == calculateMaintenance(C)
        serviceSupplies == calculateServiceSupplies(durationMinutes, soldSeats, F)
    IN  FracAdd(FracAdd(FracAdd(FracAdd(FracAdd(fuelCost, crewCost), airportFees),
                                depreciation), maintenance), serviceSupplies)

\* ----------------------------------------------------------- ticket price
\* a pricing that takes the first competitor instead of the cheapest
getTicketPriceFirst(routeData) ==
    LET competitors == routeData.otherLinks
    IN  IF Len(competitors) > 0
        THEN competitors[1].economy
        ELSE routeData.suggestedPrice

getTicketPrice(routeData) ==
    LET competitors == routeData.otherLinks
    IN  IF Len(competitors) > 0
        THEN MathMin([i \in 1..Len(competitors) |-> competitors[i].economy])
        ELSE routeData.suggestedPrice

\* ---------------------------------------------------------- fleet matcher
\* p => p.modelId is truthy: present and not 0
UserPlaneIds(userPlaneList) ==
    {userPlaneList[i].modelId[1] :
        i \in {j \in DOMAIN userPlaneList :
                 Has(userPlaneList[j].modelId) /\ userPlaneList[j].modelId[1] # 0}}

UserPlaneNames(userPlaneList) ==
    {ToLowerCase(Trim(userPlaneList[i].modelName)) :
        i \in {j \in DOMAIN userPlaneList : userPlaneList[j].modelName # <<>>}}

IsViable(model, userPlaneList) ==
    LET apiModelName == IF model.modelName # <<>>
                        THEN ToLowerCase(Trim(model.modelName)) ELSE Null
        idMatch == model.modelId \in UserPlaneIds(userPlaneList)
        nameMatch == /\ apiModelName # <<>>
                     /\ \E storedName \in UserPlaneNames(userPlaneList) :
                            Includes(apiModelName, storedName)
    IN  idMatch \/ nameMatch

RECURSIVE FilterViable(_, _)
FilterViable(models, userPlaneList) ==
    IF models = <<>> THEN <<>>
    ELSE (IF IsViable(Head(models), userPlaneList) THEN <<Head(models)>> ELSE <<>>)
         \o FilterViable(Tail(models), userPlaneList)

\* ----------------------------------------------------------- route scorer
\* SCORE = Math.round(PROFIT / F) of one option, F # 0 or missing
OptionScore(routeData, plane, stats, ticketPrice, fromAirport, toAirport, baseAirports) ==
    IF \/ ~Has(plane.maxFrequency) \/ ~Has(plane.capacity) \/ ~Has(plane.duration)
       \/ ~Has(stats.fuelBurn) \/ ~Has(stats.price) \/ ~Has(stats.lifespan)
    THEN NaN
    ELSE LET F == plane.maxFrequency[1]
             C == plane.capacity[1]
         IN  IF stats.lifespan[1] = 0 THEN
                 \* depreciation is price / 0
                 IF stats.price[1] = 0 THEN NaN
                 ELSE IF (stats.price[1] > 0) = (F > 0) THEN NegInf ELSE PosInf
             ELSE
                 LET totalWeeklyCost == TotalWeeklyCost(routeData, plane, stats,
                                                        fromAirport, toAirport, baseAirports)
                     REVENUE == Frac(ticketPrice * F * C, 1)
                     PROFIT == FracSub(REVENUE, totalWeeklyCost)
                 IN  IF F > 0 THEN Num(MathRound(PROFIT.n, PROFIT.d * F))
                     ELSE Num(MathRound(0 - PROFIT.n, PROFIT.d * (0 - F)))

\* an iteration that keeps the latest scored plane without comparing scores
ScoreStepKeepLast(acc, routeData, plane, ticketPrice, airplaneModelMap, fromAirport, toAirport, baseAirports) ==
    IF plane.modelId \notin DOMAIN airplaneModelMap THEN acc
    ELSE IF Has(plane.maxFrequency) /\ plane.maxFrequency[1] = 0 THEN acc
    ELSE LET SCORE == OptionScore(routeData, plane, airplaneModelMap[plane.modelId],
                                  ticketPrice, fromAirport, toAirport, baseAirports)
         IN  IF SCORE.k # "nan"
             THEN [best |-> <<plane>>, maxScore |-> SCORE]
             ELSE acc

\* an iteration that also replaces the best plane on an equal score
ScoreStepLastMaximum(acc, routeData, plane, ticketPrice, airplaneModelMap, fromAirport, toAirport, baseAirports) ==
    IF plane.modelId \notin DOMAIN airplaneModelMap THEN acc
    ELSE IF Has(plane.maxFrequency) /\ plane.maxFrequency[1] = 0 THEN acc
    ELSE LET SCORE == OptionScore(routeData, plane, airplaneModelMap[plane.modelId],
                                  ticketPrice, fromAirport, toAirport, baseAirports)
         IN  IF Ge(SCORE, acc.maxScore) /\ SCORE.k = "num"
             THEN [best |-> <<plane>>, maxScore |-> SCORE]
             ELSE acc

\* one iteration of the loop over viablePlanes; acc = [best, maxScore]
ScoreStep(acc, routeData, plane, ticketPrice, airplaneModelMap, fromAirport, toAirport, baseAirports) ==
    IF plane.modelId \notin DOMAIN airplaneModelMap THEN acc
    ELSE IF Has(plane.maxFrequency) /\ plane.maxFrequency[1] = 0 THEN acc
    ELSE LET SCORE == OptionScore(routeData, plane, airplaneModelMap[plane.modelId],
                                  ticketPrice, fromAirport, toAirport, baseAirports)
         IN  IF Gt(SCORE, acc.maxScore)
             THEN [best |-> <<plane>>, maxScore |-> SCORE]
             ELSE acc

RECURSIVE ScoreLoop(_, _, _, _, _, _, _, _)
ScoreLoop(acc, viablePlanes, routeData, ticketPrice, airplaneModelMap, fromAirport, toAirport, baseAirports) ==
    IF viablePlanes = <<>> THEN acc
    ELSE ScoreLoop(ScoreStep(acc, routeData, Head(viablePlanes), ticketPrice,
                             airplaneModelMap, fromAirport, toAirport, baseAirports),
                   Tail(viablePlanes), routeData, ticketPrice, airplaneModelMap,
                   fromAirport, toAirport, baseAirports)

\* the object analyzeRoute returns for a winner
AnalysisOf(routeData, acc) ==
    [fromAirportId |-> routeData.fromAirportId,
     toAirportId |-> routeData.toAirportId,
     score |-> acc.maxScore,
     planeName |-> acc.best[1].modelName]

\* airportMap.get(id): <<airport>> or <<>>
MapGet(airportMap, id) ==
    IF \E i \in DOMAIN airportMap : airportMap[i].id = id
    THEN <<airportMap[CHOOSE i \in DOMAIN airportMap :
                        /\ airportMap[i].id = id
                        /\ \A j \in DOMAIN airportMap : airportMap[j].id = id => j <= i]>>
    ELSE <<>>

\* analyzeRoute: <<analysis>> or <<>> (null)
analyzeRoute(routeData, userPlaneList, airplaneModelMap, airportMap, baseAirports) ==
    LET viablePlanes == FilterViable(routeData.modelPlanLinkInfo, userPlaneList)
        fromAirport == MapGet(airportMap, routeData.fromAirportId)
        toAirport == MapGet(airportMap, routeData.toAirportId)
    IN  IF viablePlanes = <<>> THEN Null
        ELSE IF fromAirport = <<>> \/ toAirport = <<>> THEN Null
        ELSE LET acc == ScoreLoop([best |-> <<>>, maxScore |-> NegInf], viablePlanes,
                                  routeData, getTicketPrice(routeData), airplaneModelMap,
                                  fromAirport[1], toAirport[1], baseAirports)
             IN  IF acc.best = <<>> THEN Null ELSE <<AnalysisOf(routeData, acc)>>

\* ------------------------------------------------------ the outside world
\* reference data the game server serves: airport i of the list
IataCodes == <<"IST", "FRA", "DIY", "JFK", "LHR", "CDG", "AMS", "MAD",
               "FCO", "VIE", "ZRH", "OSL", "ARN", "HEL", "CPH", "DUB",
               "LIS", "ATH">>
Cities == <<"Istanbul", "Frankfurt", "Diyarbakir", "New York", "London", "Paris",
            "Amsterdam", "Madrid", "Rome", "Vienna", "Zurich", "Oslo",
            "Stockholm", "Helsinki", "Copenhagen", "Dublin", "Lisbon", "Athens">>

\* beyond the named airports the codes and cities are numbered
AirportAt(i) ==
    IF i <= Len(IataCodes)
    THEN [id |-> 10 + i, iata |-> IataCodes[i], city |-> Cities[i], size |-> 1 + (i % 7)]
    ELSE [id |-> 10 + i, iata |-> "A" \o ToString(i), city |-> "City " \o ToString(i),
          size |-> 1 + (i % 7)]

AirportList(n) == [i \in 1..n |-> AirportAt(i)]

\* the airplane-models table: ids 0 and 1 are known models, id 2 is not; the
\* records of ids 3 to 6 each lack one field; those of ids 7 and 8 carry a
\* lifespan of 0 weeks, with a price above and below zero
ModelStats ==
    [id \in {0, 1, 3, 4, 5, 6, 7, 8} |->
        IF id = 0
        THEN [fuelBurn |-> <<1>>, price |-> <<100>>, lifespan |-> <<3>>, airplaneType |-> <<"LIGHT">>]
        ELSE IF id = 1
        THEN [fuelBurn |-> <<2>>, price |-> <<200>>, lifespan |-> <<7>>, airplaneType |-> <<"REGIONAL">>]
        ELSE IF id = 3
        THEN [fuelBurn |-> <<1>>, price |-> <<100>>, lifespan |-> <<3>>, airplaneType |-> <<>>]
        ELSE IF id = 4
        THEN [fuelBurn |-> <<>>, price |-> <<100>>, lifespan |-> <<3>>, airplaneType |-> <<"LIGHT">>]
        ELSE IF id = 5
        THEN [fuelBurn |-> <<1>>, price |-> <<>>, lifespan |-> <<3>>, airplaneType |-> <<"LIGHT">>]
        ELSE IF id = 7
        THEN [fuelBurn |-> <<1>>, price |-> <<100>>, lifespan |-> <<0>>, airplaneType |-> <<"LIGHT">>]
        ELSE IF id = 8
        THEN [fuelBurn |-> <<1>>, price |-> <<0 - 100>>, lifespan |-> <<0>>, airplaneType |-> <<"LIGHT">>]
        ELSE [fuelBurn |-> <<1>>, price |-> <<100>>, lifespan |-> <<>>, airplaneType |-> <<"LIGHT">>]]

\* aircraft options a route offer may carry
OptionIdNames ==
    {<<0, <<"A", "b">>>>, <<1, <<>>>>, <<1, <<" ", "B", "a">>>>, <<2, <<"A", "b">>>>}

OptionFrequencies == {<<>>, <<0 - 1>>, <<0>>, <<3>>}

OptionSet ==
    {[modelId |-> p[1], modelName |-> p[2], maxFrequency |-> f,
      capacity |-> <<p[1] + 2>>, duration |-> <<90>>] :
        p \in OptionIdNames, f \in OptionFrequencies}

RECURSIVE SeqsUpTo(_, _)
SeqsUpTo(S, n) ==
    IF n = 0 THEN {<<>>}
    ELSE LET shorter == SeqsUpTo(S, n - 1)
         IN  shorter \cup {Append(q, x) : q \in {r \in shorter : Len(r) = n - 1}, x \in S}

CompetitorLists ==
    {<<>>, <<[economy |-> 500], [economy |-> 650]>>, <<[economy |-> 650], [economy |-> 500]>>}

\* entries of an owned-aircraft list: by id, or by name fragment
OwnedEntries ==
    {[modelId |-> <<0>>, modelName |-> <<>>],
     [modelId |-> <<1>>, modelName |-> <<>>],
     [modelId |-> <<>>, modelName |-> <<"a", "b">>],
     [modelId |-> <<>>, modelName |-> <<"B", " ">>]}

Distance(fromId, toId) == 100 + ((toId * 7 + fromId) % 13) * 150

OfferFor(fromId, toId, options, competitors) ==
    [fromAirportId |-> fromId, toAirportId |-> toId,
     distance |-> Distance(fromId, toId),
     modelPlanLinkInfo |-> options,
     otherLinks |-> competitors,
     suggestedPrice |-> 420]

\* the route the scorer is exercised on, and the operator's configuration there
ScoreAirports == AirportList(2)
ScoreBases == <<[iata |-> IataCodes[1], fmt |-> "id", id |-> 11, excl |-> {}]>>

\* ------------------------------------------------------------------ state
VARIABLES
    \* one activation of analyzeRoute: its arguments, its position, its locals
    routeData, userPlaneList, aPc, viablePlanes, ticketPrice, loopIdx,
    bestPlaneForRoute, maxScore, analysis,
    \* history: the SCORE local of every iteration that computed one
    scored,
    \* the game server: the airport list it serves, the kinds of answer it gives
    srvAirports, srvKinds,
    \* the progress sink: the outcomes a delivery may have
    sinkKinds,
    \* one activation of runAnalysis: its arguments ...
    baseAirports, planeList, testLimit,
    \* ... its position and how it ended ...
    pc, error,
    \* ... and its locals
    allAirports, baseIdx, destIdx, processedCount, routeScores, allResults,
    \* history: the route-offer fetches issued, the list each base had
    \* accumulated when its loop ended, the calls made to the collaborators
    fetchLog, accumulated, calls,
    \* history: the progress reports handed to the sink
    progress,
    \* the state store: every account's base list and plane list, and which of
    \* the running account's two objects the run still shares with the store
    accounts, held,
    \* one evaluation of the cost model: its inputs, and the six terms and the
    \* total once they are computed
    costIn, costOut,
    \* bot_state.json: the state last written to it, the outcomes a write may
    \* have, the number of writes that have failed
    file, diskKinds, failures,
    \* the command handlers: the one that replied last (its command, account,
    \* reply, and whether it called saveState), and those suspended on an
    \* airport lookup
    last, pending

azVars == <<routeData, userPlaneList, aPc, viablePlanes, ticketPrice, loopIdx,
            bestPlaneForRoute, maxScore, analysis, scored>>
envVars == <<srvAirports, srvKinds, sinkKinds>>
cfgVars == <<baseAirports, planeList, testLimit>>
runVars == <<pc, error, allAirports, baseIdx, destIdx, processedCount, routeScores,
             allResults, fetchLog, accumulated, calls, progress>>
storeVars == <<accounts, held>>
costVars == <<costIn, costOut>>
cmdVars == <<file, diskKinds, failures, last, pending>>
vars == <<azVars, envVars, cfgVars, runVars, storeVars, costVars, cmdVars>>

\* ------------------------------------------------- analyzeRoute, stepwise
\* an activation that is not running
AzIdle ==
    /\ routeData = OfferFor(11, 12, <<>>, <<>>)
    /\ userPlaneList = <<>>
    /\ aPc = "idle"
    /\ viablePlanes = <<>>
    /\ ticketPrice = <<>>
    /\ loopIdx = 0
    /\ bestPlaneForRoute = <<>>
    /\ maxScore = NegInf
    /\ analysis = <<>>
    /\ scored = <<>>

\* a run that is not running
RunIdle ==
    /\ srvAirports = <<>>
    /\ srvKinds = {}
    /\ sinkKinds = {}
    /\ baseAirports = <<>>
    /\ planeList = <<>>
    /\ testLimit = 0
    /\ pc = "idle"
    /\ error = "none"
    /\ allAirports = <<>>
    /\ baseIdx = 0
    /\ destIdx = 0
    /\ processedCount = 0
    /\ routeScores = <<>>
    /\ allResults = <<>>
    /\ fetchLog = <<>>
    /\ accumulated = <<>>
    /\ calls = [login |-> 0, airports |-> 0, models |-> 0, delay |-> 0]
    /\ progress = <<>>

\* a store no command acts on
StoreIdle ==
    /\ accounts = <<>>
    /\ held = [baseAirports |-> FALSE, planeList |-> FALSE]

\* a cost model that is not being evaluated
CostIdle ==
    /\ costIn = <<>>
    /\ costOut = <<>>

\* no command handler has replied yet
NoCommand == [cmd |-> "none", acct |-> "", reply |-> "none", saved |-> FALSE]

\* no command is handled in full
CmdIdle ==
    /\ file = <<>>
    /\ diskKinds = {}
    /\ failures = 0
    /\ last = NoCommand
    /\ pending = <<>>

InitScore ==
    /\ routeData \in {OfferFor(11, 12, options, competitors) :
                        options \in SeqsUpTo(OptionSet, MaxOptions),
                        competitors \in CompetitorLists}
    /\ userPlaneList \in SeqsUpTo(OwnedEntries, MaxPlanes)
    /\ aPc = "start"
    /\ viablePlanes = <<>>
    /\ ticketPrice = <<>>
    /\ loopIdx = 0
    /\ bestPlaneForRoute = <<>>
    /\ maxScore = NegInf
    /\ analysis = <<>>
    /\ scored = <<>>
    /\ RunIdle
    /\ StoreIdle
    /\ CostIdle
    /\ CmdIdle

\* lines 609-658: match the fleet, price the ticket, find the two airports
AnalyzeStart ==
    /\ aPc = "start"
    /\ LET viable == FilterViable(routeData.modelPlanLinkInfo, userPlaneList)
       IN  /\ viablePlanes' = viable
           /\ IF viable = <<>>
              THEN /\ aPc' = "done"
                   /\ UNCHANGED <<ticketPrice, loopIdx>>
              ELSE /\ ticketPrice' = <<getTicketPrice(routeData)>>
                   /\ IF \/ MapGet(ScoreAirports, routeData.fromAirportId) = <<>>
                         \/ MapGet(ScoreAirports, routeData.toAirportId) = <<>>
                      THEN aPc' = "done" /\ UNCHANGED loopIdx
                      ELSE aPc' = "loop" /\ loopIdx' = 1
    /\ UNCHANGED <<routeData, userPlaneList, bestPlaneForRoute, maxScore, analysis, scored>>
    /\ UNCHANGED <<envVars, cfgVars, runVars, storeVars, costVars, cmdVars>>

\* lines 660-717: one iteration of the loop over viablePlanes
AnalyzeIter ==
    /\ aPc = "loop"
    /\ loopIdx <= Len(viablePlanes)
    /\ LET plane == viablePlanes[loopIdx]
           fromAirport == MapGet(ScoreAirports, routeData.fromAirportId)[1]
           toAirport == MapGet(ScoreAirports, routeData.toAirportId)[1]
           acc == ScoreStep([best |-> bestPlaneForRoute, maxScore |-> maxScore],
                            routeData, plane, ticketPrice[1], ModelStats,
                            fromAirport, toAirport, ScoreBases)
           reached == /\ plane.modelId \in DOMAIN ModelStats
                      /\ ~(Has(plane.maxFrequency) /\ plane.maxFrequency[1] = 0)
       IN  /\ bestPlaneForRoute' = acc.best
           /\ maxScore' = acc.maxScore
           /\ scored' = IF reached
                        THEN Append(scored,
                               [idx |-> loopIdx, plane |-> plane,
                                SCORE |-> OptionScore(routeData, plane, ModelStats[plane.modelId],
                                                      ticketPrice[1], fromAirport, toAirport,
                                                      ScoreBases)])
                        ELSE scored
    /\ loopIdx' = loopIdx + 1
    /\ UNCHANGED <<routeData, userPlaneList, aPc, viablePlanes, ticketPrice, analysis>>
    /\ UNCHANGED <<envVars, cfgVars, runVars, storeVars, costVars, cmdVars>>

\* lines 719-735: null without a winner, else the winner's score and name
AnalyzeReturn ==
    /\ aPc = "loop"
    /\ loopIdx > Len(viablePlanes)
    /\ analysis' = IF bestPlaneForRoute = <<>> THEN Null
                   ELSE <<AnalysisOf(routeData, [best |-> bestPlaneForRoute,
                                                  maxScore |-> maxScore])>>
    /\ aPc' = "done"
    /\ UNCHANGED <<routeData, userPlaneList, viablePlanes, ticketPrice, loopIdx,
                   bestPlaneForRoute, maxScore, scored>>
    /\ UNCHANGED <<envVars, cfgVars, runVars, storeVars, costVars, cmdVars>>

NextScore == AnalyzeStart \/ AnalyzeIter \/ AnalyzeReturn

SpecScore == InitScore /\ [][NextScore]_vars

\* offers whose options may lack a cost input: the model has no record (id 2),
\* the record lacks a field (ids 3 to 6), the option lacks capacity or duration
CostOptionSet ==
    {[modelId |-> id, modelName |-> <<"A", "b">>, maxFrequency |-> <<3>>,
      capacity |-> <<id + 2>>, duration |-> <<90>>] : id \in {0, 2, 3, 4, 5, 6}}
    \cup {[modelId |-> 0, modelName |-> <<"A", "b">>, maxFrequency |-> <<3>>,
           capacity |-> <<>>, duration |-> <<90>>],
          [modelId |-> 0, modelName |-> <<"A", "b">>, maxFrequency |-> <<3>>,
           capacity |-> <<2>>, duration |-> <<>>]}

InitCost ==
    /\ routeData \in {OfferFor(11, 12, options, competitors) :
                        options \in SeqsUpTo(CostOptionSet, MaxOptions),
                        competitors \in CompetitorLists}
    /\ userPlaneList = <<[modelId |-> <<>>, modelName |-> <<"a", "b">>]>>
    /\ aPc = "start"
    /\ viablePlanes = <<>>
    /\ ticketPrice = <<>>
    /\ loopIdx = 0
    /\ bestPlaneForRoute = <<>>
    /\ maxScore = NegInf
    /\ analysis = <<>>
    /\ scored = <<>>
    /\ RunIdle
    /\ StoreIdle
    /\ CostIdle
    /\ CmdIdle

SpecCost == InitCost /\ [][NextScore]_vars

\* offers whose options name a model with a lifespan of 0 weeks next to an
\* ordinary one, each at a frequency above and below zero
FiniteOptionSet ==
    {[modelId |-> id, modelName |-> <<"A", "b">>, maxFrequency |-> <<f>>,
      capacity |-> <<2>>, duration |-> <<90>>] : id \in {0, 7, 8}, f \in {0 - 1, 3}}

InitFinite ==
    /\ routeData \in {OfferFor(11, 12, options, competitors) :
                        options \in SeqsUpTo(FiniteOptionSet, MaxOptions),
                        competitors \in CompetitorLists}
    /\ userPlaneList = <<[modelId |-> <<>>, modelName |-> <<"a", "b">>]>>
    /\ aPc = "start"
    /\ viablePlanes = <<>>
    /\ ticketPrice = <<>>
    /\ loopIdx = 0
    /\ bestPlaneForRoute = <<>>
    /\ maxScore = NegInf
    /\ analysis = <<>>
    /\ scored = <<>>
    /\ RunIdle
    /\ StoreIdle
    /\ CostIdle
    /\ CmdIdle

SpecFinite == InitFinite /\ [][NextScore]_vars

\* ------------------------------------------------ the cost model, evaluated
\* inputs of the cost model: distances on both sides of every band limit of
\* the fuel formula, zero and positive values of the other inputs
CostDistances == {0, 360, 361, 500, 501, 600, 859, 860, 2000, 2001, 3000}

CostInputs ==
    [distance : CostDistances, duration : {0, 90}, capacity : {0, 3},
     frequency : {0, 1, 3}, fuelBurn : {0, 2}, price : {0, 100}, lifespan : {1, 7},
     airplaneType : {<<"REGIONAL">>}]

InitTerms ==
    /\ AzIdle
    /\ RunIdle
    /\ StoreIdle
    /\ costIn \in {<<in>> : in \in CostInputs}
    /\ costOut = <<>>
    /\ CmdIdle

\* lines 680-689: the six terms and their total for one option
ComputeCosts ==
    /\ costIn # <<>>
    /\ costOut = <<>>
    /\ LET in == costIn[1]
           F == in.frequency
           C == in.capacity
           durationMinutes == in.duration
           soldSeats == C * DEFAULT_LOAD_FACTOR
           plane == [maxFrequency |-> <<F>>, capacity |-> <<C>>, duration |-> <<durationMinutes>>]
           stats == [fuelBurn |-> <<in.fuelBurn>>, price |-> <<in.price>>,
                     lifespan |-> <<in.lifespan>>, airplaneType |-> in.airplaneType]
       IN  costOut' =
             <<[fuelCost |-> calculateFuelCost(in.distance, in.fuelBurn, F, DEFAULT_LOAD_FACTOR),
                crewCost |-> calculateCrewCost(C, durationMinutes, F),
                airportFees |-> calculateAirportFees(C, in.airplaneType, ScoreAirports[1],
                                                     ScoreAirports[2], ScoreBases, F),
                depreciation |-> calculateDepreciation(in.price, in.lifespan),
                maintenance |-> calculateMaintenance(C),
                serviceSupplies |-> calculateServiceSupplies(durationMinutes, soldSeats, F),
                totalWeeklyCost |-> TotalWeeklyCost([distance |-> in.distance], plane, stats,
                                                    ScoreAirports[1], ScoreAirports[2],
                                                    ScoreBases)]>>
    /\ UNCHANGED costIn
    /\ UNCHANGED <<azVars, envVars, cfgVars, runVars, storeVars, cmdVars>>

NextTerms == ComputeCosts

SpecTerms == InitTerms /\ [][NextTerms]_vars

\* ------------------------------------------------ runAnalysis, stepwise
\* bounds of the scan worlds
NumAirports == 3
MaxBases == 2
RankAirports == 16

\* program constants of the scan
TopN == 10

\* what the server may answer to a plan-link request
RunPlaneList == <<[modelId |-> <<1>>, modelName |-> <<>>]>>

GoodOption ==
    [modelId |-> 1, modelName |-> <<" ", "B", "a">>, maxFrequency |-> <<3>>,
     capacity |-> <<3>>, duration |-> <<90>>]

UnownedOption ==
    [modelId |-> 0, modelName |-> <<"A", "b">>, maxFrequency |-> <<3>>,
     capacity |-> <<2>>, duration |-> <<90>>]

ServerOffer(kind, fromId, toId) ==
    IF kind = "good"
    THEN OfferFor(fromId, toId, <<UnownedOption, GoodOption>>,
                  <<[economy |-> 500], [economy |-> 650]>>)
    ELSE OfferFor(fromId, toId, <<UnownedOption>>, <<>>)

\* the base lists a run may be handed: an entry holds the airport id itself
\* (as baselist_add stores it) or an object {id, excludeAirports} (as
\* loadState and the excludelist commands leave it)
UnknownAirport == [id |-> 99, iata |-> "XXX", city |-> "Nowhere", size |-> 1]

BaseEntries(n) ==
    {[iata |-> AirportAt(i).iata, fmt |-> "id", id |-> AirportAt(i).id, excl |-> {}] :
        i \in 1..n}
    \cup {[iata |-> AirportAt(i).iata, fmt |-> "obj", id |-> AirportAt(i).id, excl |-> {}] :
        i \in 1..n}
    \cup {[iata |-> AirportAt(i).iata, fmt |-> "obj", id |-> AirportAt(i).id,
           excl |-> {<<AirportAt((i % n) + 1).iata, AirportAt((i % n) + 1).id>>}] :
        i \in 1..n}
    \cup {[iata |-> UnknownAirport.iata, fmt |-> "id", id |-> UnknownAirport.id, excl |-> {}]}

BaseConfigs(n, m) ==
    {c \in SeqsUpTo(BaseEntries(n), m) :
        /\ c # <<>>
        /\ \A i, j \in DOMAIN c : i # j => c[i].iata # c[j].iata}

RunStart ==
    /\ pc = "login"
    /\ error = "none"
    /\ allAirports = <<>>
    /\ baseIdx = 0
    /\ destIdx = 0
    /\ processedCount = 0
    /\ routeScores = <<>>
    /\ allResults = <<>>
    /\ fetchLog = <<>>
    /\ accumulated = <<>>
    /\ calls = [login |-> 0, airports |-> 0, models |-> 0, delay |-> 0]
    /\ progress = <<>>

Init ==
    /\ AzIdle
    /\ srvAirports = AirportList(NumAirports)
    /\ srvKinds \in {{"fail", "good"}, {"good", "none"}}
    /\ sinkKinds = {"ok"}
    /\ baseAirports \in BaseConfigs(NumAirports, MaxBases)
    /\ planeList = RunPlaneList
    /\ testLimit \in {0, 2}
    /\ RunStart
    /\ StoreIdle
    /\ CostIdle
    /\ CmdIdle

\* a long airport list, to fill a base's list beyond the cut
InitRank ==
    /\ AzIdle
    /\ srvAirports = AirportList(RankAirports)
    /\ srvKinds = {"fail", "good"}
    /\ sinkKinds = {"ok"}
    /\ baseAirports =
         <<[iata |-> AirportAt(1).iata, fmt |-> "id", id |-> AirportAt(1).id, excl |-> {}],
           [iata |-> AirportAt(2).iata, fmt |-> "obj", id |-> AirportAt(2).id, excl |-> {}]>>
    /\ planeList = RunPlaneList
    /\ testLimit = 0
    /\ RunStart
    /\ StoreIdle
    /\ CostIdle
    /\ CmdIdle

\* a scan list that ignores the cap
AirportsToScanUncapped == allAirports

\* lines 763-767
AirportsToScan ==
    IF testLimit > 0 /\ testLimit < Len(allAirports)
    THEN SubSeq(allAirports, 1, testLimit)
    ELSE allAirports

\* a lookup that reads the id out of an object entry
LookupBaseUnwrapped(airportIdLookup, entry) == MapGet(airportIdLookup, entry.id)

\* lines 775-776: airportIdLookup.get(baseAirports[baseIata]); the map is keyed
\* by numeric id, so an object value finds nothing
LookupBase(airportIdLookup, entry) ==
    IF entry.fmt = "id" THEN MapGet(airportIdLookup, entry.id) ELSE <<>>

\* a comparison that never recognises the base among the destinations
IsSameAirportNever(entry, toAirportId) == FALSE

\* line 794: fromAirportId === toAirportId; an object is never === a number
IsSameAirport(entry, toAirportId) == entry.fmt = "id" /\ entry.id = toAirportId

\* Array.prototype.sort((a, b) => b.score - a.score): stable, best first
RECURSIVE InsertByScore(_, _)
InsertByScore(x, sorted) ==
    IF sorted = <<>> THEN <<x>>
    ELSE IF Gt(x.score, Head(sorted).score) THEN <<x>> \o sorted
    ELSE <<Head(sorted)>> \o InsertByScore(x, Tail(sorted))

RECURSIVE SortInto(_, _)
SortInto(sorted, rest) ==
    IF rest = <<>> THEN sorted
    ELSE SortInto(InsertByScore(Head(rest), sorted), Tail(rest))

SortByScoreDesc(list) == SortInto(<<>>, list)

\* a ranking that cuts the list without sorting it
RankTopUnsorted(list) == SubSeq(list, 1, Min2(TopN, Len(list)))

\* lines 828-829: sort, then slice(0, 10)
RankTop(list) ==
    LET sorted == SortByScoreDesc(list)
    IN  SubSeq(sorted, 1, Min2(TopN, Len(sorted)))

CurBase == baseAirports[baseIdx]
CurDest == AirportsToScan[destIdx]

\* line 821: the cadence of the count reports
PROGRESS_EVERY == 50

\* one report as the sink receives it, with what the run had done by then
Report(kind, base, count, outcome) ==
    [kind |-> kind, base |-> base, count |-> count, ok |-> outcome = "ok",
     calls |-> calls, fetches |-> Len(fetchLog), dest |-> destIdx]

\* part_000 lines 59-67: the message is sent to the channel; a failed send is
\* caught and logged, and onProgress returns normally either way
onProgress(kind, base, count) ==
    \E outcome \in sinkKinds : progress' = Append(progress, Report(kind, base, count, outcome))

\* lines 820-823: the count after the increment is reported on every multiple
ReportCount(count) ==
    IF count % PROGRESS_EVERY = 0
    THEN onProgress("count", CurBase.iata, count)
    ELSE UNCHANGED progress

\* a login failure that is swallowed: the run goes on to the reference data
LoginFailSwallowed ==
    /\ pc = "login"
    /\ calls' = [calls EXCEPT !.login = @ + 1]
    /\ error' = "login"
    /\ pc' = "airports"
    /\ UNCHANGED <<allAirports, baseIdx, destIdx, processedCount, routeScores,
                   allResults, fetchLog, accumulated>>
    /\ onProgress("login", "", 0)
    /\ UNCHANGED <<azVars, envVars, cfgVars, storeVars, costVars, cmdVars>>

\* lines 749-750, login fails: the error leaves runAnalysis
LoginFail ==
    /\ pc = "login"
    /\ calls' = [calls EXCEPT !.login = @ + 1]
    /\ error' = "login"
    /\ pc' = "threw"
    /\ UNCHANGED <<allAirports, baseIdx, destIdx, processedCount, routeScores,
                   allResults, fetchLog, accumulated>>
    /\ onProgress("login", "", 0)
    /\ UNCHANGED <<azVars, envVars, cfgVars, storeVars, costVars, cmdVars>>

\* lines 749-750, login succeeds
LoginOk ==
    /\ pc = "login"
    /\ calls' = [calls EXCEPT !.login = @ + 1]
    /\ pc' = "airports"
    /\ UNCHANGED <<error, allAirports, baseIdx, destIdx, processedCount, routeScores,
                   allResults, fetchLog, accumulated>>
    /\ onProgress("login", "", 0)
    /\ UNCHANGED <<azVars, envVars, cfgVars, storeVars, costVars, cmdVars>>

\* lines 752-753
FetchAirportsFail ==
    /\ pc = "airports"
    /\ calls' = [calls EXCEPT !.airports = @ + 1]
    /\ error' = "airports"
    /\ pc' = "threw"
    /\ UNCHANGED <<allAirports, baseIdx, destIdx, processedCount, routeScores,
                   allResults, fetchLog, accumulated>>
    /\ onProgress("airports", "", 0)
    /\ UNCHANGED <<azVars, envVars, cfgVars, storeVars, costVars, cmdVars>>

FetchAirportsOk ==
    /\ pc = "airports"
    /\ calls' = [calls EXCEPT !.airports = @ + 1]
    /\ allAirports' = srvAirports
    /\ pc' = "models"
    /\ UNCHANGED <<error, baseIdx, destIdx, processedCount, routeScores,
                   allResults, fetchLog, accumulated>>
    /\ onProgress("airports", "", 0)
    /\ UNCHANGED <<azVars, envVars, cfgVars, storeVars, costVars, cmdVars>>

\* lines 755-756
FetchModelsFail ==
    /\ pc = "models"
    /\ calls' = [calls EXCEPT !.models = @ + 1]
    /\ error' = "models"
    /\ pc' = "threw"
    /\ UNCHANGED <<allAirports, baseIdx, destIdx, processedCount, routeScores,
                   allResults, fetchLog, accumulated>>
    /\ onProgress("models", "", 0)
    /\ UNCHANGED <<azVars, envVars, cfgVars, storeVars, costVars, cmdVars>>

\* lines 755-772: the model table arrives; the lookup, the scan list and the
\* empty result map are set up
FetchModelsOk ==
    /\ pc = "models"
    /\ calls' = [calls EXCEPT !.models = @ + 1]
    /\ baseIdx' = 1
    /\ pc' = "base"
    /\ UNCHANGED <<error, allAirports, destIdx, processedCount, routeScores,
                   allResults, fetchLog, accumulated>>
    /\ onProgress("models", "", 0)
    /\ UNCHANGED <<azVars, envVars, cfgVars, storeVars, costVars, cmdVars>>

\* lines 778-782: the base's value finds no airport
SkipBase ==
    /\ pc = "base"
    /\ baseIdx <= Len(baseAirports)
    /\ LookupBase(allAirports, CurBase) = <<>>
    /\ baseIdx' = baseIdx + 1
    /\ UNCHANGED <<pc, error, allAirports, destIdx, processedCount, routeScores,
                   allResults, fetchLog, accumulated, calls>>
    /\ onProgress("skip", CurBase.iata, 0)
    /\ UNCHANGED <<azVars, envVars, cfgVars, storeVars, costVars, cmdVars>>

\* a base start that fetches the airport list again for its own scan
StartBaseRefetching ==
    /\ pc = "base"
    /\ baseIdx <= Len(baseAirports)
    /\ LookupBase(allAirports, CurBase) # <<>>
    /\ calls' = [calls EXCEPT !.airports = @ + 1]
    /\ allAirports' = srvAirports
    /\ routeScores' = <<>>
    /\ processedCount' = 0
    /\ destIdx' = 1
    /\ pc' = "dest"
    /\ UNCHANGED <<error, baseIdx, allResults, fetchLog, accumulated>>
    /\ onProgress("base", CurBase.iata, 0)
    /\ UNCHANGED <<azVars, envVars, cfgVars, storeVars, costVars, cmdVars>>

\* a base start that reports nothing
StartBaseSilent ==
    /\ pc = "base"
    /\ baseIdx <= Len(baseAirports)
    /\ LookupBase(allAirports, CurBase) # <<>>
    /\ routeScores' = <<>>
    /\ processedCount' = 0
    /\ destIdx' = 1
    /\ pc' = "dest"
    /\ UNCHANGED <<error, allAirports, baseIdx, allResults, fetchLog, accumulated, calls>>
    /\ UNCHANGED progress
    /\ UNCHANGED <<azVars, envVars, cfgVars, storeVars, costVars, cmdVars>>

\* a base start where a report that cannot be delivered ends the run
StartBaseSinkEscalates ==
    /\ pc = "base"
    /\ baseIdx <= Len(baseAirports)
    /\ LookupBase(allAirports, CurBase) # <<>>
    /\ \E outcome \in sinkKinds :
          /\ progress' = Append(progress, Report("base", CurBase.iata, 0, outcome))
          /\ IF outcome = "ok"
             THEN /\ routeScores' = <<>>
                  /\ processedCount' = 0
                  /\ destIdx' = 1
                  /\ pc' = "dest"
                  /\ UNCHANGED error
             ELSE /\ pc' = "threw"
                  /\ error' = "progress"
                  /\ UNCHANGED <<routeScores, processedCount, destIdx>>
    /\ UNCHANGED <<allAirports, baseIdx, allResults, fetchLog, accumulated, calls>>
    /\ UNCHANGED <<azVars, envVars, cfgVars, storeVars, costVars, cmdVars>>

\* lines 784-789
StartBase ==
    /\ pc = "base"
    /\ baseIdx <= Len(baseAirports)
    /\ LookupBase(allAirports, CurBase) # <<>>
    /\ routeScores' = <<>>
    /\ processedCount' = 0
    /\ destIdx' = 1
    /\ pc' = "dest"
    /\ UNCHANGED <<error, allAirports, baseIdx, allResults, fetchLog, accumulated, calls>>
    /\ onProgress("base", CurBase.iata, 0)
    /\ UNCHANGED <<azVars, envVars, cfgVars, storeVars, costVars, cmdVars>>

\* lines 794-797: the destination is the base itself
SkipSelf ==
    /\ pc = "dest"
    /\ destIdx <= Len(AirportsToScan)
    /\ IsSameAirport(CurBase, CurDest.id)
    /\ processedCount' = processedCount + 1
    /\ destIdx' = destIdx + 1
    /\ UNCHANGED <<pc, error, allAirports, baseIdx, routeScores, allResults,
                   fetchLog, accumulated, calls>>
    /\ UNCHANGED progress
    /\ UNCHANGED <<azVars, envVars, cfgVars, storeVars, costVars, cmdVars>>

\* a scan that sends the request twice without awaiting the first answer
IssueFetchTwice ==
    /\ pc = "dest"
    /\ destIdx <= Len(AirportsToScan)
    /\ ~IsSameAirport(CurBase, CurDest.id)
    /\ fetchLog' = fetchLog \o
                     <<[base |-> CurBase.iata, from |-> CurBase.id, to |-> CurDest.id,
                        res |-> "pending", scored |-> FALSE, delays |-> calls.delay,
                      planes |-> <<>>],
                       [base |-> CurBase.iata, from |-> CurBase.id, to |-> CurDest.id,
                        res |-> "pending", scored |-> FALSE, delays |-> calls.delay,
                      planes |-> <<>>]>>
    /\ pc' = "fetch"
    /\ UNCHANGED <<error, allAirports, baseIdx, destIdx, processedCount, routeScores,
                   allResults, accumulated, calls>>
    /\ UNCHANGED progress
    /\ UNCHANGED <<azVars, envVars, cfgVars, storeVars, costVars, cmdVars>>

\* line 799: the request for (base, destination) goes out
IssueFetch ==
    /\ pc = "dest"
    /\ destIdx <= Len(AirportsToScan)
    /\ ~IsSameAirport(CurBase, CurDest.id)
    /\ fetchLog' = Append(fetchLog,
                     [base |-> CurBase.iata, from |-> CurBase.id, to |-> CurDest.id,
                      res |-> "pending", scored |-> FALSE, delays |-> calls.delay,
                      planes |-> <<>>])
    /\ pc' = "fetch"
    /\ UNCHANGED <<error, allAirports, baseIdx, destIdx, processedCount, routeScores,
                   allResults, accumulated, calls>>
    /\ UNCHANGED progress
    /\ UNCHANGED <<azVars, envVars, cfgVars, storeVars, costVars, cmdVars>>

\* a fetch failure that is not caught: the error leaves runAnalysis
FetchFailedThrows ==
    /\ pc = "fetch"
    /\ "fail" \in srvKinds
    /\ fetchLog' = [fetchLog EXCEPT ![Len(fetchLog)].res = "fail"]
    /\ error' = "fetch"
    /\ pc' = "threw"
    /\ UNCHANGED <<allAirports, baseIdx, destIdx, processedCount, routeScores,
                   allResults, accumulated, calls>>
    /\ UNCHANGED progress
    /\ UNCHANGED <<azVars, envVars, cfgVars, storeVars, costVars, cmdVars>>

\* a failed fetch that goes straight on to the next destination
FetchFailedNoDelay ==
    /\ pc = "fetch"
    /\ "fail" \in srvKinds
    /\ fetchLog' = [fetchLog EXCEPT ![Len(fetchLog)].res = "fail"]
    /\ processedCount' = processedCount + 1
    /\ destIdx' = destIdx + 1
    /\ pc' = "dest"
    /\ UNCHANGED <<error, allAirports, baseIdx, routeScores,
                   allResults, accumulated, calls>>
    /\ ReportCount(processedCount + 1)
    /\ UNCHANGED <<azVars, envVars, cfgVars, storeVars, costVars, cmdVars>>

\* a failed fetch that is tried again: the scan stays on the same destination
FetchFailedRetries ==
    /\ pc = "fetch"
    /\ "fail" \in srvKinds
    /\ fetchLog' = [fetchLog EXCEPT ![Len(fetchLog)].res = "fail"]
    /\ pc' = "dest"
    /\ UNCHANGED <<error, allAirports, baseIdx, destIdx, processedCount, routeScores,
                   allResults, accumulated, calls>>
    /\ UNCHANGED progress
    /\ UNCHANGED <<azVars, envVars, cfgVars, storeVars, costVars, cmdVars>>

\* lines 799-823, fetchRouteData caught an error and returned null
FetchFailed ==
    /\ pc = "fetch"
    /\ "fail" \in srvKinds
    /\ fetchLog' = [fetchLog EXCEPT ![Len(fetchLog)].res = "fail"]
    /\ processedCount' = processedCount + 1
    /\ pc' = "delay"
    /\ UNCHANGED <<error, allAirports, baseIdx, destIdx, routeScores,
                   allResults, accumulated, calls>>
    /\ ReportCount(processedCount + 1)
    /\ UNCHANGED <<azVars, envVars, cfgVars, storeVars, costVars, cmdVars>>

\* a RouteScore that names the base as its destination too
RouteScoreOfBaseTwice(an, fromAirport, destAirport) ==
    [fromAirportId |-> an.fromAirportId, toAirportId |-> an.toAirportId,
     score |-> an.score, planeName |-> an.planeName,
     fromIata |-> fromAirport.iata, fromCity |-> fromAirport.city,
     toIata |-> fromAirport.iata, toCity |-> fromAirport.city]

\* the RouteScore pushed for an analysis: lines 812-816
RouteScoreOf(an, fromAirport, destAirport) ==
    [fromAirportId |-> an.fromAirportId, toAirportId |-> an.toAirportId,
     score |-> an.score, planeName |-> an.planeName,
     fromIata |-> fromAirport.iata, fromCity |-> fromAirport.city,
     toIata |-> destAirport.iata, toCity |-> destAirport.city]

\* lines 799-823, the offer arrived: score it, push a result if there is one
FetchReturned ==
    /\ pc = "fetch"
    /\ \E kind \in srvKinds \ {"fail"} :
          LET data == ServerOffer(kind, CurBase.id, CurDest.id)
              an == analyzeRoute(data, planeList, ModelStats, allAirports, baseAirports)
              fromAirport == LookupBase(allAirports, CurBase)[1]
          IN  /\ routeScores' = IF an # <<>>
                                THEN Append(routeScores, RouteScoreOf(an[1], fromAirport, CurDest))
                                ELSE routeScores
              /\ fetchLog' = [fetchLog EXCEPT ![Len(fetchLog)].res = kind,
                                              ![Len(fetchLog)].scored = (an # <<>>),
                                              ![Len(fetchLog)].planes = planeList]
    /\ processedCount' = processedCount + 1
    /\ pc' = "delay"
    /\ UNCHANGED <<error, allAirports, baseIdx, destIdx, allResults, accumulated, calls>>
    /\ ReportCount(processedCount + 1)
    /\ UNCHANGED <<azVars, envVars, cfgVars, storeVars, costVars, cmdVars>>

\* a pause whose timer never fires
DelayDoneHangs ==
    /\ pc = "delay"
    /\ UNCHANGED vars

\* line 825: the 150 ms pause ends
DelayDone ==
    /\ pc = "delay"
    /\ calls' = [calls EXCEPT !.delay = @ + 1]
    /\ destIdx' = destIdx + 1
    /\ pc' = "dest"
    /\ UNCHANGED <<error, allAirports, baseIdx, processedCount, routeScores,
                   allResults, fetchLog, accumulated>>
    /\ UNCHANGED progress
    /\ UNCHANGED <<azVars, envVars, cfgVars, storeVars, costVars, cmdVars>>

\* a ranking step that also notes the number of routes in the caller's base entry
RankBaseMarking ==
    /\ pc = "dest"
    /\ destIdx > Len(AirportsToScan)
    /\ accumulated' = Append(accumulated, [iata |-> CurBase.iata, list |-> routeScores])
    /\ allResults' = Append(allResults, [iata |-> CurBase.iata, routes |-> RankTop(routeScores)])
    /\ baseAirports' = [baseAirports EXCEPT ![baseIdx].excl = {<<"routes", Len(routeScores)>>}]
    /\ baseIdx' = baseIdx + 1
    /\ pc' = "base"
    /\ UNCHANGED <<error, allAirports, destIdx, processedCount, routeScores, fetchLog, calls>>
    /\ UNCHANGED <<planeList, testLimit>>
    /\ UNCHANGED progress
    /\ UNCHANGED <<azVars, envVars, storeVars, costVars, cmdVars>>

\* lines 828-832: the base's loop is over; rank and store
RankBase ==
    /\ pc = "dest"
    /\ destIdx > Len(AirportsToScan)
    /\ accumulated' = Append(accumulated, [iata |-> CurBase.iata, list |-> routeScores])
    /\ allResults' = Append(allResults, [iata |-> CurBase.iata, routes |-> RankTop(routeScores)])
    /\ baseIdx' = baseIdx + 1
    /\ pc' = "base"
    /\ UNCHANGED <<error, allAirports, destIdx, processedCount, routeScores, fetchLog, calls>>
    /\ UNCHANGED progress
    /\ UNCHANGED <<azVars, envVars, cfgVars, storeVars, costVars, cmdVars>>

\* a return that does not wait for the remaining bases
ReturnResultsEarly ==
    /\ pc = "base"
    /\ pc' = "returned"
    /\ UNCHANGED <<error, allAirports, baseIdx, destIdx, processedCount, routeScores,
                   allResults, fetchLog, accumulated, calls>>
    /\ UNCHANGED progress
    /\ UNCHANGED <<azVars, envVars, cfgVars, storeVars, costVars, cmdVars>>

\* lines 835-836: every base is done; the map goes back to the caller
ReturnResults ==
    /\ pc = "base"
    /\ baseIdx > Len(baseAirports)
    /\ pc' = "returned"
    /\ UNCHANGED <<error, allAirports, baseIdx, destIdx, processedCount, routeScores,
                   allResults, fetchLog, accumulated, calls>>
    /\ UNCHANGED progress
    /\ UNCHANGED <<azVars, envVars, cfgVars, storeVars, costVars, cmdVars>>

Next ==
    \/ LoginFail \/ LoginOk
    \/ FetchAirportsFail \/ FetchAirportsOk
    \/ FetchModelsFail \/ FetchModelsOk
    \/ SkipBase \/ StartBase
    \/ SkipSelf \/ IssueFetch
    \/ FetchFailed \/ FetchReturned
    \/ DelayDone \/ RankBase \/ ReturnResults

Spec == Init /\ [][Next]_vars

SpecRank == InitRank /\ [][Next]_vars

\* every external call answers and every timer fires: a step that can be
\* taken is eventually taken
SpecFair == Init /\ [][Next]_vars /\ WF_vars(Next)

\* ------------------------------------------------------- the state store
\* bound: the largest exclude set a base is given
MaxExcluded == 2

\* state.accounts: the account names of bot_state.json
AccountNames == {"main", "alt"}

\* names a command may be given: the accounts, and one that does not exist
CommandAccounts == AccountNames \cup {"ghost"}

\* the entry of a base in the form baselist_add stores it, and in the form
\* loadState and the excludelist commands leave it
NumericEntry(airport) == [iata |-> airport.iata, fmt |-> "id", id |-> airport.id, excl |-> {}]
ObjectEntry(airport, excl) == [iata |-> airport.iata, fmt |-> "obj", id |-> airport.id, excl |-> excl]

\* baseAirports[baseIata]: the position of the key, 0 when it is absent
KeyIndex(bases, iata) ==
    IF \E i \in DOMAIN bases : bases[i].iata = iata
    THEN CHOOSE i \in DOMAIN bases : bases[i].iata = iata
    ELSE 0

\* getAirportByIata: the airport of the served list with that code, or null
getAirportByIata(iata) ==
    IF \E i \in DOMAIN srvAirports : srvAirports[i].iata = iata
    THEN <<srvAirports[CHOOSE i \in DOMAIN srvAirports : srvAirports[i].iata = iata]>>
    ELSE Null

\* part_005 lines 47-56: the base object; an old-format value is replaced in
\* place by {id, excludeAirports: {}}
BaseObjOf(entry) == [entry EXCEPT !.fmt = "obj"]

\* the store after base k of the account has been given the entry e; the
\* account's baseAirports object is changed in place
WithBaseEntry(acct, k, e) ==
    [accounts EXCEPT ![acct].baseAirports[k] = e]

\* what the run sees of an in-place change of the store's baseAirports object:
\* the run of account "main" holds that object while held.baseAirports
RunBasesAfter(acct, bases) ==
    IF acct = "main" /\ held.baseAirports THEN bases ELSE baseAirports

\* the accounts of the store when the commands start
StoreAccounts ==
    [a \in AccountNames |->
        IF a = "main"
        THEN [baseAirports |-> <<NumericEntry(AirportAt(1)), ObjectEntry(AirportAt(2), {})>>,
              planeList |-> RunPlaneList]
        ELSE [baseAirports |-> <<ObjectEntry(AirportAt(1), {})>>,
              planeList |-> RunPlaneList]]

StoreInit ==
    /\ accounts = StoreAccounts
    /\ held = [baseAirports |-> FALSE, planeList |-> FALSE]

InitStore ==
    /\ AzIdle
    /\ srvAirports = AirportList(NumAirports)
    /\ srvKinds = {"fail", "good"}
    /\ sinkKinds = {"ok"}
    /\ baseAirports = <<>>
    /\ planeList = <<>>
    /\ testLimit = 0
    /\ pc = "idle"
    /\ error = "none"
    /\ allAirports = <<>>
    /\ baseIdx = 0
    /\ destIdx = 0
    /\ processedCount = 0
    /\ routeScores = <<>>
    /\ allResults = <<>>
    /\ fetchLog = <<>>
    /\ accumulated = <<>>
    /\ calls = [login |-> 0, airports |-> 0, models |-> 0, delay |-> 0]
    /\ progress = <<>>
    /\ StoreInit
    /\ CostIdle
    /\ CmdIdle

\* lines 775-797: the destinations runAnalysis asks offers for from a base:
\* none when the base's value finds no airport, else every airport of the
\* list whose id is not === the base's value
CandidateList(airports, entry) ==
    IF LookupBase(airports, entry) = <<>> THEN <<>>
    ELSE SelectSeq(airports, LAMBDA a : ~IsSameAirport(entry, a.id))

\* an exclusion command that writes one exclude list for the whole account
ExcludelistAddAccountWide(acct, baseIata, iata) ==
    /\ acct \in AccountNames
    /\ KeyIndex(accounts[acct].baseAirports, baseIata) # 0
    /\ getAirportByIata(iata) # <<>>
    /\ accounts' = [accounts EXCEPT ![acct].baseAirports =
                      [k \in DOMAIN @ |->
                         [BaseObjOf(@[k]) EXCEPT !.excl = @ \cup {<<iata, getAirportByIata(iata)[1].id>>}]]]
    /\ baseAirports' = RunBasesAfter(acct, accounts'[acct].baseAirports)
    /\ UNCHANGED <<planeList, testLimit, held>>
    /\ UNCHANGED <<azVars, envVars, runVars, costVars, cmdVars>>

\* part_005 lines 23-58 and 70-92: excludelist_add
ExcludelistAdd(acct, baseIata, iata) ==
    /\ IF acct \notin AccountNames
       THEN UNCHANGED <<accounts, baseAirports>>
       ELSE LET bases == accounts[acct].baseAirports
                k == KeyIndex(bases, baseIata)
            IN  IF k = 0
                THEN UNCHANGED <<accounts, baseAirports>>
                ELSE LET baseObj == BaseObjOf(bases[k])
                     IN  \E outcome \in {"found", "failed"} :
                            LET airport == getAirportByIata(iata)
                                add == /\ \A x \in baseObj.excl : x[1] # iata
                                       /\ outcome = "found"
                                       /\ airport # <<>>
                                       /\ Cardinality(baseObj.excl) < MaxExcluded
                                e == IF add
                                     THEN [baseObj EXCEPT !.excl = @ \cup {<<iata, airport[1].id>>}]
                                     ELSE baseObj
                            IN  /\ accounts' = WithBaseEntry(acct, k, e)
                                /\ baseAirports' = RunBasesAfter(acct, accounts'[acct].baseAirports)
    /\ UNCHANGED <<planeList, testLimit, held>>
    /\ UNCHANGED <<azVars, envVars, runVars, costVars, cmdVars>>

\* part_005 lines 23-58 and 94-105: excludelist_delete
ExcludelistDelete(acct, baseIata, iata) ==
    /\ IF acct \notin AccountNames
       THEN UNCHANGED <<accounts, baseAirports>>
       ELSE LET bases == accounts[acct].baseAirports
                k == KeyIndex(bases, baseIata)
            IN  IF k = 0
                THEN UNCHANGED <<accounts, baseAirports>>
                ELSE LET baseObj == BaseObjOf(bases[k])
                         e == [baseObj EXCEPT !.excl = {x \in @ : x[1] # iata}]
                     IN  /\ accounts' = WithBaseEntry(acct, k, e)
                         /\ baseAirports' = RunBasesAfter(acct, accounts'[acct].baseAirports)
    /\ UNCHANGED <<planeList, testLimit, held>>
    /\ UNCHANGED <<azVars, envVars, runVars, costVars, cmdVars>>

\* part_005 lines 23-68: excludelist_view; it too replaces an old-format value
ExcludelistView(acct, baseIata) ==
    /\ IF acct \notin AccountNames
       THEN UNCHANGED <<accounts, baseAirports>>
       ELSE LET bases == accounts[acct].baseAirports
                k == KeyIndex(bases, baseIata)
            IN  IF k = 0
                THEN UNCHANGED <<accounts, baseAirports>>
                ELSE /\ accounts' = WithBaseEntry(acct, k, BaseObjOf(bases[k]))
                     /\ baseAirports' = RunBasesAfter(acct, accounts'[acct].baseAirports)
    /\ UNCHANGED <<planeList, testLimit, held>>
    /\ UNCHANGED <<azVars, envVars, runVars, costVars, cmdVars>>

\* the codes a command may name: those of the served airports, and one no
\* airport has
CommandIatas == {srvAirports[i].iata : i \in DOMAIN srvAirports} \cup {UnknownAirport.iata}

ExcludelistAddCommand ==
    \E acct \in CommandAccounts, baseIata \in CommandIatas, iata \in CommandIatas :
        ExcludelistAdd(acct, baseIata, iata)

ExcludelistDeleteCommand ==
    \E acct \in CommandAccounts, baseIata \in CommandIatas, iata \in CommandIatas :
        ExcludelistDelete(acct, baseIata, iata)

ExcludelistViewCommand ==
    \E acct \in CommandAccounts, baseIata \in CommandIatas : ExcludelistView(acct, baseIata)

NextStore == ExcludelistAddCommand \/ ExcludelistDeleteCommand \/ ExcludelistViewCommand

SpecStore == InitStore /\ [][NextStore]_vars

\* ------------------------------------- commands handled while a run is on
\* the plane option of planelist_add and planelist_delete: "0", "1", " Ab"
PlaneIdentifiers == {<<"0">>, <<"1">>, <<" ", "A", "b">>}

\* part_004 lines 54-60 and 68-69: the entry planelist_add builds from the
\* option. A model id that is NaN is written as no id: it is falsy, it is
\* === to nothing, and JSON.stringify writes it as null
PlaneEntryOf(planeIdentifier) ==
    IF ~isNaN(planeIdentifier)
    THEN LET modelId == parseInt10(planeIdentifier)
         IN  [modelId |-> IF modelId.k = "num" THEN <<modelId.v>> ELSE <<>>,
              modelName |-> <<>>]
    ELSE [modelId |-> <<>>, modelName |-> ToLowerCase(Trim(planeIdentifier))]

\* p.modelId === entry.modelId, p.modelName === entry.modelName: the entry of
\* the option names the same plane as p
SamePlane(p, planeIdentifier) ==
    LET entry == PlaneEntryOf(planeIdentifier)
    IN  IF ~isNaN(planeIdentifier)
        THEN Has(p.modelId) /\ Has(entry.modelId) /\ p.modelId = entry.modelId
        ELSE p.modelName = entry.modelName

\* part_004 lines 61 and 70: planeList.some(p => p.modelId === entry.modelId),
\* or the same on modelName
AlreadyListed(list, planeIdentifier) ==
    \E i \in DOMAIN list : SamePlane(list[i], planeIdentifier)

\* part_004 lines 19-37 and 52-80: planelist_add pushes onto the account's
\* array; a run that was handed that array sees the new entry
PlanelistAdd(acct, ident) ==
    /\ IF acct \notin AccountNames \/ AlreadyListed(accounts[acct].planeList, ident)
       THEN UNCHANGED <<accounts, planeList>>
       ELSE /\ accounts' = [accounts EXCEPT ![acct].planeList = Append(@, PlaneEntryOf(ident))]
            /\ planeList' = IF acct = "main" /\ held.planeList
                            THEN accounts'[acct].planeList
                            ELSE planeList
    /\ UNCHANGED <<baseAirports, testLimit, held>>
    /\ UNCHANGED <<azVars, envVars, runVars, costVars, cmdVars>>

\* part_004 lines 82-103: planelist_delete stores a filtered copy, also when
\* nothing was removed
PlanelistDelete(acct, ident) ==
    /\ IF acct \notin AccountNames
       THEN UNCHANGED <<accounts, held>>
       ELSE /\ accounts' = [accounts EXCEPT ![acct].planeList =
                              SelectSeq(@, LAMBDA p : ~SamePlane(p, ident))]
            /\ held' = IF acct = "main" THEN [held EXCEPT !.planeList = FALSE] ELSE held
    /\ UNCHANGED <<planeList, baseAirports, testLimit>>
    /\ UNCHANGED <<azVars, envVars, runVars, costVars, cmdVars>>

\* baselist.js lines 47-73: baselist_add stores a copy of the base list with
\* the new key, whose value is the airport id
BaselistAdd(acct, iata) ==
    /\ IF \/ acct \notin AccountNames
          \/ KeyIndex(accounts[acct].baseAirports, iata) # 0
          \/ getAirportByIata(iata) = <<>>
       THEN UNCHANGED <<accounts, held>>
       ELSE \E outcome \in {"found", "failed"} :
               IF outcome = "failed"
               THEN UNCHANGED <<accounts, held>>
               ELSE /\ accounts' = [accounts EXCEPT ![acct].baseAirports =
                                      Append(@, NumericEntry(getAirportByIata(iata)[1]))]
                    /\ held' = IF acct = "main"
                               THEN [held EXCEPT !.baseAirports = FALSE] ELSE held
    /\ UNCHANGED <<planeList, baseAirports, testLimit>>
    /\ UNCHANGED <<azVars, envVars, runVars, costVars, cmdVars>>

\* baselist.js lines 75-89: baselist_delete stores a copy without the key
BaselistDelete(acct, iata) ==
    /\ IF acct \notin AccountNames
       THEN UNCHANGED <<accounts, held>>
       ELSE IF KeyIndex(accounts[acct].baseAirports, iata) = 0
       THEN UNCHANGED <<accounts, held>>
       ELSE /\ accounts' = [accounts EXCEPT ![acct].baseAirports =
                              SelectSeq(@, LAMBDA e : e.iata # iata)]
            /\ held' = IF acct = "main"
                       THEN [held EXCEPT !.baseAirports = FALSE] ELSE held
    /\ UNCHANGED <<planeList, baseAirports, testLimit>>
    /\ UNCHANGED <<azVars, envVars, runVars, costVars, cmdVars>>

\* the account whose run is on, and a name that is not an account
LiveAccounts == {"main", "ghost"}

PlanelistAddCommand ==
    \E acct \in LiveAccounts, ident \in PlaneIdentifiers : PlanelistAdd(acct, ident)

PlanelistDeleteCommand ==
    \E acct \in LiveAccounts, ident \in PlaneIdentifiers : PlanelistDelete(acct, ident)

BaselistAddCommand ==
    \E acct \in LiveAccounts, iata \in CommandIatas : BaselistAdd(acct, iata)

BaselistDeleteCommand ==
    \E acct \in LiveAccounts, iata \in CommandIatas : BaselistDelete(acct, iata)

\* part_000 lines 28-78: the run command has loaded the state and handed the
\* account's own base list and plane list to runAnalysis
InitLive ==
    /\ AzIdle
    /\ srvAirports = AirportList(NumAirports)
    /\ srvKinds = {"fail", "good"}
    /\ sinkKinds = {"ok"}
    /\ accounts = StoreAccounts
    /\ held = [baseAirports |-> TRUE, planeList |-> TRUE]
    /\ baseAirports = StoreAccounts["main"].baseAirports
    /\ planeList = StoreAccounts["main"].planeList
    /\ testLimit = 0
    /\ RunStart
    /\ CostIdle
    /\ CmdIdle

NextLive ==
    \/ Next
    \/ PlanelistAddCommand \/ PlanelistDeleteCommand
    \/ BaselistAddCommand \/ BaselistDeleteCommand

SpecLive == InitLive /\ [][NextLive]_vars

\* --------------------------------------------- the commands, handled in full
\* bounds: the handlers suspended at one time, the writes that fail, the
\* entries a plane list is grown to
MaxPending == 2
MaxWriteFailures == 1
MaxListed == 3

\* interaction.reply / editReply of a handler that ends
Replied(cmd, acct, reply, saved) ==
    last' = [cmd |-> cmd, acct |-> acct, reply |-> reply, saved |-> saved]

\* part_007 lines 117-124: saveState writes the whole state; a write that
\* fails is logged and nothing is thrown
saveState(state, disk) ==
    /\ disk = "fail" => failures < MaxWriteFailures
    /\ file' = IF disk = "ok" THEN state ELSE file
    /\ failures' = IF disk = "ok" THEN failures ELSE failures + 1

\* a handler that ends without calling saveState
NoSave == UNCHANGED <<file, failures>>

\* a state that was not touched
NoChange == UNCHANGED <<accounts, pending>>

\* part_004 lines 19-50: planelist_view
PlanelistViewFull(acct) ==
    /\ IF acct \notin AccountNames
       THEN Replied("planelist_view", acct, "no-account", FALSE)
       ELSE IF accounts[acct].planeList = <<>>
       THEN Replied("planelist_view", acct, "empty", FALSE)
       ELSE Replied("planelist_view", acct, "listed", FALSE)
    /\ NoChange
    /\ NoSave
    /\ UNCHANGED <<diskKinds, held>>
    /\ UNCHANGED <<azVars, envVars, cfgVars, runVars, costVars>>

\* a planelist_add that pushes the entry onto the plane list of every account
PlanelistAddFullShared(acct, planeIdentifier, disk) ==
    /\ IF acct \notin AccountNames
       THEN Replied("planelist_add", acct, "no-account", FALSE) /\ NoSave
                /\ UNCHANGED accounts
       ELSE IF AlreadyListed(accounts[acct].planeList, planeIdentifier)
       THEN Replied("planelist_add", acct, "already", FALSE) /\ NoSave
                /\ UNCHANGED accounts
       ELSE /\ Len(accounts[acct].planeList) < MaxListed
            /\ accounts' = [a \in AccountNames |->
                              [accounts[a] EXCEPT !.planeList =
                                  Append(@, PlaneEntryOf(planeIdentifier))]]
            /\ saveState(accounts', disk)
            /\ Replied("planelist_add", acct, "added", TRUE)
    /\ UNCHANGED <<diskKinds, held, pending>>
    /\ UNCHANGED <<azVars, envVars, cfgVars, runVars, costVars>>

\* part_004 lines 19-37 and 52-80: planelist_add
PlanelistAddFull(acct, planeIdentifier, disk) ==
    /\ IF acct \notin AccountNames
       THEN Replied("planelist_add", acct, "no-account", FALSE) /\ NoSave
                /\ UNCHANGED accounts
       ELSE IF AlreadyListed(accounts[acct].planeList, planeIdentifier)
       THEN Replied("planelist_add", acct, "already", FALSE) /\ NoSave
                /\ UNCHANGED accounts
       ELSE /\ Len(accounts[acct].planeList) < MaxListed
            /\ accounts' = [accounts EXCEPT ![acct].planeList =
                              Append(@, PlaneEntryOf(planeIdentifier))]
            /\ saveState(accounts', disk)
            /\ Replied("planelist_add", acct, "added", TRUE)
    /\ UNCHANGED <<diskKinds, held, pending>>
    /\ UNCHANGED <<azVars, envVars, cfgVars, runVars, costVars>>

\* part_004 lines 19-37 and 82-103: planelist_delete
PlanelistDeleteFull(acct, planeIdentifier, disk) ==
    /\ IF acct \notin AccountNames
       THEN Replied("planelist_delete", acct, "no-account", FALSE) /\ NoSave
                /\ UNCHANGED accounts
       ELSE LET list == accounts[acct].planeList
                kept == SelectSeq(list, LAMBDA p : ~SamePlane(p, planeIdentifier))
            IN  /\ accounts' = [accounts EXCEPT ![acct].planeList = kept]
                /\ IF Len(kept) = Len(list)
                   THEN Replied("planelist_delete", acct, "not-found", FALSE) /\ NoSave
                   ELSE saveState(accounts', disk)
                            /\ Replied("planelist_delete", acct, "removed", TRUE)
    /\ UNCHANGED <<diskKinds, held, pending>>
    /\ UNCHANGED <<azVars, envVars, cfgVars, runVars, costVars>>

\* baselist.js lines 20-45: baselist_view
BaselistViewFull(acct) ==
    /\ IF acct \notin AccountNames
       THEN Replied("baselist_view", acct, "no-account", FALSE)
       ELSE IF accounts[acct].baseAirports = <<>>
       THEN Replied("baselist_view", acct, "empty", FALSE)
       ELSE Replied("baselist_view", acct, "listed", FALSE)
    /\ NoChange
    /\ NoSave
    /\ UNCHANGED <<diskKinds, held>>
    /\ UNCHANGED <<azVars, envVars, cfgVars, runVars, costVars>>

\* baselist.js lines 20-57: baselist_add up to its airport lookup. The handler
\* keeps the base list it read; the lookup is answered in a later step
BaselistAddBegin(acct, iata) ==
    /\ IF acct \notin AccountNames
       THEN Replied("baselist_add", acct, "no-account", FALSE) /\ UNCHANGED pending
       ELSE IF KeyIndex(accounts[acct].baseAirports, iata) # 0
       THEN Replied("baselist_add", acct, "already", FALSE) /\ UNCHANGED pending
       ELSE /\ Len(pending) < MaxPending
            /\ pending' = Append(pending,
                            [acct |-> acct, iata |-> iata,
                             baseAirports |-> accounts[acct].baseAirports,
                             meanwhile |-> {}])
            /\ UNCHANGED last
    /\ UNCHANGED accounts
    /\ NoSave
    /\ UNCHANGED <<diskKinds, held>>
    /\ UNCHANGED <<azVars, envVars, cfgVars, runVars, costVars>>

\* the suspended handlers but the i-th
Others(i) == [j \in 1..(Len(pending) - 1) |-> IF j < i THEN pending[j] ELSE pending[j + 1]]

\* the suspended handlers of the account note that iata was reported added
NoteAdded(q, acct, iata) ==
    [j \in DOMAIN q |->
        IF q[j].acct = acct THEN [q[j] EXCEPT !.meanwhile = @ \cup {iata}] ELSE q[j]]

\* the suspended handlers of the account note that iata was removed
NoteRemoved(q, acct, iata) ==
    [j \in DOMAIN q |->
        IF q[j].acct = acct THEN [q[j] EXCEPT !.meanwhile = @ \ {iata}] ELSE q[j]]

\* baselist.js lines 57-73: the lookup of a suspended baselist_add is answered;
\* the new base list is the one the handler read, with the new key
BaselistAddEnd(i, outcome, disk) ==
    /\ i \in DOMAIN pending
    /\ LET h == pending[i]
           airport == getAirportByIata(h.iata)
       IN  IF outcome = "failed"
           THEN /\ Replied("baselist_add", h.acct, "lookup-error", FALSE)
                /\ pending' = Others(i)
                /\ UNCHANGED accounts /\ NoSave
           ELSE IF airport = <<>>
           THEN /\ Replied("baselist_add", h.acct, "unknown-airport", FALSE)
                /\ pending' = Others(i)
                /\ UNCHANGED accounts /\ NoSave
           ELSE /\ accounts' = [accounts EXCEPT ![h.acct].baseAirports =
                                  Append(h.baseAirports, NumericEntry(airport[1]))]
                /\ saveState(accounts', disk)
                /\ Replied("baselist_add", h.acct, "added", TRUE)
                /\ pending' = NoteAdded(Others(i), h.acct, h.iata)
    /\ UNCHANGED <<diskKinds, held>>
    /\ UNCHANGED <<azVars, envVars, cfgVars, runVars, costVars>>

\* baselist.js lines 20-33 and 75-89: baselist_delete
BaselistDeleteFull(acct, iata, disk) ==
    /\ IF acct \notin AccountNames
       THEN Replied("baselist_delete", acct, "no-account", FALSE) /\ NoSave /\ NoChange
       ELSE IF KeyIndex(accounts[acct].baseAirports, iata) = 0
       THEN Replied("baselist_delete", acct, "not-found", FALSE) /\ NoSave /\ NoChange
       ELSE /\ accounts' = [accounts EXCEPT ![acct].baseAirports =
                              SelectSeq(@, LAMBDA e : e.iata # iata)]
            /\ saveState(accounts', disk)
            /\ Replied("baselist_delete", acct, "removed", TRUE)
            /\ pending' = NoteRemoved(pending, acct, iata)
    /\ UNCHANGED <<diskKinds, held>>
    /\ UNCHANGED <<azVars, envVars, cfgVars, runVars, costVars>>

\* part_005 lines 23-68: excludelist_view
ExcludelistViewFull(acct, baseIata) ==
    /\ IF acct \notin AccountNames
       THEN Replied("excludelist_view", acct, "no-account", FALSE) /\ UNCHANGED accounts
       ELSE LET bases == accounts[acct].baseAirports
                k == KeyIndex(bases, baseIata)
            IN  IF k = 0
                THEN Replied("excludelist_view", acct, "no-base", FALSE)
                         /\ UNCHANGED accounts
                ELSE /\ accounts' = WithBaseEntry(acct, k, BaseObjOf(bases[k]))
                     /\ IF bases[k].excl = {}
                        THEN Replied("excludelist_view", acct, "empty", FALSE)
                        ELSE Replied("excludelist_view", acct, "listed", FALSE)
    /\ NoSave
    /\ UNCHANGED <<diskKinds, held, pending>>
    /\ UNCHANGED <<azVars, envVars, cfgVars, runVars, costVars>>

\* part_005 lines 23-58 and 70-92: excludelist_add, its lookup answered at once
ExcludelistAddFull(acct, baseIata, iata, outcome, disk) ==
    /\ IF acct \notin AccountNames
       THEN Replied("excludelist_add", acct, "no-account", FALSE) /\ NoSave
                /\ UNCHANGED accounts
       ELSE LET bases == accounts[acct].baseAirports
                k == KeyIndex(bases, baseIata)
                airport == getAirportByIata(iata)
            IN  IF k = 0
                THEN Replied("excludelist_add", acct, "no-base", FALSE) /\ NoSave
                         /\ UNCHANGED accounts
                ELSE IF \E x \in bases[k].excl : x[1] = iata
                THEN /\ accounts' = WithBaseEntry(acct, k, BaseObjOf(bases[k]))
                     /\ Replied("excludelist_add", acct, "already", FALSE) /\ NoSave
                ELSE IF outcome = "failed"
                THEN /\ accounts' = WithBaseEntry(acct, k, BaseObjOf(bases[k]))
                     /\ Replied("excludelist_add", acct, "lookup-error", FALSE) /\ NoSave
                ELSE IF airport = <<>>
                THEN /\ accounts' = WithBaseEntry(acct, k, BaseObjOf(bases[k]))
                     /\ Replied("excludelist_add", acct, "unknown-airport", FALSE) /\ NoSave
                ELSE /\ Cardinality(bases[k].excl) < MaxExcluded
                     /\ accounts' = WithBaseEntry(acct, k,
                                       [BaseObjOf(bases[k]) EXCEPT
                                           !.excl = @ \cup {<<iata, airport[1].id>>}])
                     /\ saveState(accounts', disk)
                     /\ Replied("excludelist_add", acct, "added", TRUE)
    /\ UNCHANGED <<diskKinds, held, pending>>
    /\ UNCHANGED <<azVars, envVars, cfgVars, runVars, costVars>>

\* part_005 lines 23-58 and 94-105: excludelist_delete
ExcludelistDeleteFull(acct, baseIata, iata, disk) ==
    /\ IF acct \notin AccountNames
       THEN Replied("excludelist_delete", acct, "no-account", FALSE) /\ NoSave
                /\ UNCHANGED accounts
       ELSE LET bases == accounts[acct].baseAirports
                k == KeyIndex(bases, baseIata)
            IN  IF k = 0
                THEN Replied("excludelist_delete", acct, "no-base", FALSE) /\ NoSave
                         /\ UNCHANGED accounts
                ELSE IF ~\E x \in bases[k].excl : x[1] = iata
                THEN /\ accounts' = WithBaseEntry(acct, k, BaseObjOf(bases[k]))
                     /\ Replied("excludelist_delete", acct, "not-found", FALSE) /\ NoSave
                ELSE /\ accounts' = WithBaseEntry(acct, k,
                                       [BaseObjOf(bases[k]) EXCEPT
                                           !.excl = {x \in @ : x[1] # iata}])
                     /\ saveState(accounts', disk)
                     /\ Replied("excludelist_delete", acct, "removed", TRUE)
    /\ UNCHANGED <<diskKinds, held, pending>>
    /\ UNCHANGED <<azVars, envVars, cfgVars, runVars, costVars>>

\* the options of the commands: the plane "1"; a base that is listed, one
\* that is not, a code no airport has; an airport to exclude
CmdPlanes == {<<"1">>}
CmdBases == {IataCodes[1], IataCodes[2], UnknownAirport.iata}
CmdExcluded == {IataCodes[3], UnknownAirport.iata}

\* the accounts the plane and exclusion commands are tried on
CmdOwners == {"main", "ghost"}

\* the state file when the bot starts, already in the current format
CmdAccountsAtStart ==
    [a \in AccountNames |->
        IF a = "main"
        THEN [baseAirports |-> <<ObjectEntry(AirportAt(1), {})>>, planeList |-> <<>>]
        ELSE [baseAirports |-> <<ObjectEntry(AirportAt(1), {})>>, planeList |-> RunPlaneList]]

InitCmd ==
    /\ AzIdle
    /\ srvAirports = AirportList(NumAirports)
    /\ srvKinds = {"fail", "good"}
    /\ sinkKinds = {"ok"}
    /\ baseAirports = <<>>
    /\ planeList = <<>>
    /\ testLimit = 0
    /\ pc = "idle"
    /\ error = "none"
    /\ allAirports = <<>>
    /\ baseIdx = 0
    /\ destIdx = 0
    /\ processedCount = 0
    /\ routeScores = <<>>
    /\ allResults = <<>>
    /\ fetchLog = <<>>
    /\ accumulated = <<>>
    /\ calls = [login |-> 0, airports |-> 0, models |-> 0, delay |-> 0]
    /\ progress = <<>>
    /\ accounts = CmdAccountsAtStart
    /\ held = [baseAirports |-> FALSE, planeList |-> FALSE]
    /\ CostIdle
    /\ file = CmdAccountsAtStart
    /\ diskKinds = {"ok"}
    /\ failures = 0
    /\ last = NoCommand
    /\ pending = <<>>

\* one interaction at a time: a command is taken up when no handler is
\* suspended
PlanelistViewCmd ==
    /\ pending = <<>>
    /\ \E acct \in CmdOwners : PlanelistViewFull(acct)

PlanelistAddCmd ==
    /\ pending = <<>>
    /\ \E acct \in CmdOwners, plane \in CmdPlanes, disk \in diskKinds :
          PlanelistAddFull(acct, plane, disk)

PlanelistDeleteCmd ==
    /\ pending = <<>>
    /\ \E acct \in CmdOwners, plane \in CmdPlanes, disk \in diskKinds :
          PlanelistDeleteFull(acct, plane, disk)

BaselistViewCmd ==
    /\ pending = <<>>
    /\ \E acct \in CommandAccounts : BaselistViewFull(acct)

BaselistAddBeginCmd ==
    /\ pending = <<>>
    /\ \E acct \in CmdOwners, iata \in CmdBases : BaselistAddBegin(acct, iata)

BaselistAddEndCmd ==
    \E i \in DOMAIN pending, outcome \in {"found", "failed"}, disk \in diskKinds :
        BaselistAddEnd(i, outcome, disk)

BaselistDeleteCmd ==
    /\ pending = <<>>
    /\ \E acct \in CommandAccounts, iata \in CmdBases, disk \in diskKinds :
          BaselistDeleteFull(acct, iata, disk)

ExcludelistViewCmd ==
    /\ pending = <<>>
    /\ \E acct \in CmdOwners, baseIata \in CmdBases : ExcludelistViewFull(acct, baseIata)

ExcludelistAddCmd ==
    /\ pending = <<>>
    /\ \E acct \in CmdOwners, baseIata \in CmdBases, iata \in CmdExcluded,
          outcome \in {"found", "failed"}, disk \in diskKinds :
          ExcludelistAddFull(acct, baseIata, iata, outcome, disk)

ExcludelistDeleteCmd ==
    /\ pending = <<>>
    /\ \E acct \in CmdOwners, baseIata \in CmdBases, iata \in CmdExcluded,
          disk \in diskKinds :
          ExcludelistDeleteFull(acct, baseIata, iata, disk)

NextCmd ==
    \/ PlanelistViewCmd \/ PlanelistAddCmd \/ PlanelistDeleteCmd
    \/ BaselistViewCmd \/ BaselistAddBeginCmd \/ BaselistAddEndCmd \/ BaselistDeleteCmd
    \/ ExcludelistViewCmd \/ ExcludelistAddCmd \/ ExcludelistDeleteCmd

SpecCmd == InitCmd /\ [][NextCmd]_vars

\* the plane lists alone. The plane option: "1", "1.5", " Ab", "AB", ".5"
PlaneOptions ==
    {<<"1">>, <<"1", ".", "5">>, <<" ", "A", "b">>, <<"A", "B">>, <<".", "5">>}

PlanelistAddAny ==
    \E acct \in CmdOwners, plane \in PlaneOptions, disk \in diskKinds :
        PlanelistAddFull(acct, plane, disk)

PlanelistDeleteAny ==
    \E acct \in CmdOwners, plane \in PlaneOptions, disk \in diskKinds :
        PlanelistDeleteFull(acct, plane, disk)

NextPlanes == PlanelistViewCmd \/ PlanelistAddAny \/ PlanelistDeleteAny

SpecPlanes == InitCmd /\ [][NextPlanes]_vars

\* the base lists alone, the commands overlapping: a command is taken up
\* while other handlers are suspended on their lookups
OverlapBases == {IataCodes[2], IataCodes[3], UnknownAirport.iata}

BaselistAddBeginAny ==
    \E acct \in CmdOwners, iata \in OverlapBases : BaselistAddBegin(acct, iata)

BaselistDeleteAny ==
    \E acct \in CmdOwners, iata \in OverlapBases, disk \in diskKinds :
        BaselistDeleteFull(acct, iata, disk)

NextOverlap == BaselistAddBeginAny \/ BaselistAddEndCmd \/ BaselistDeleteAny

SpecOverlap == InitCmd /\ [][NextOverlap]_vars

\* the commands of C35's handlers on a disk whose writes may fail
InitDisk ==
    /\ AzIdle
    /\ srvAirports = AirportList(NumAirports)
    /\ srvKinds = {"fail", "good"}
    /\ sinkKinds = {"ok"}
    /\ baseAirports = <<>>
    /\ planeList = <<>>
    /\ testLimit = 0
    /\ pc = "idle"
    /\ error = "none"
    /\ allAirports = <<>>
    /\ baseIdx = 0
    /\ destIdx = 0
    /\ processedCount = 0
    /\ routeScores = <<>>
    /\ allResults = <<>>
    /\ fetchLog = <<>>
    /\ accumulated = <<>>
    /\ calls = [login |-> 0, airports |-> 0, models |-> 0, delay |-> 0]
    /\ progress = <<>>
    /\ accounts = CmdAccountsAtStart
    /\ held = [baseAirports |-> FALSE, planeList |-> FALSE]
    /\ CostIdle
    /\ file = CmdAccountsAtStart
    /\ diskKinds = {"ok", "fail"}
    /\ failures = 0
    /\ last = NoCommand
    /\ pending = <<>>

NextDisk ==
    \/ PlanelistAddCmd \/ PlanelistDeleteCmd
    \/ ExcludelistAddCmd \/ ExcludelistDeleteCmd

SpecDisk == InitDisk /\ [][NextDisk]_vars

\* ------------------------------------------------------- the run command
\* the accounts a run command may name: main with or without bases and
\* planes, alt with a base and no plane. A list that is missing from the file
\* is the empty list here: lines 38-43 make it one before the checks.
RunCmdAccounts ==
    {[a \in AccountNames |->
         IF a = "main"
         THEN [baseAirports |-> b, planeList |-> p]
         ELSE [baseAirports |-> <<NumericEntry(AirportAt(1))>>, planeList |-> <<>>]] :
       b \in {<<>>, <<NumericEntry(AirportAt(2))>>,
             <<NumericEntry(AirportAt(1)), ObjectEntry(AirportAt(2), {})>>},
       p \in {<<>>, RunPlaneList}}

\* the bot is up, no analysis is running
InitRunCmd ==
    /\ AzIdle
    /\ srvAirports = AirportList(NumAirports)
    /\ srvKinds = {"fail", "good"}
    /\ sinkKinds = {"ok"}
    /\ baseAirports = <<>>
    /\ planeList = <<>>
    /\ testLimit \in {0, 2}
    /\ pc = "idle"
    /\ error = "none"
    /\ allAirports = <<>>
    /\ baseIdx = 0
    /\ destIdx = 0
    /\ processedCount = 0
    /\ routeScores = <<>>
    /\ allResults = <<>>
    /\ fetchLog = <<>>
    /\ accumulated = <<>>
    /\ calls = [login |-> 0, airports |-> 0, models |-> 0, delay |-> 0]
    /\ progress = <<>>
    /\ accounts \in RunCmdAccounts
    /\ held = [baseAirports |-> FALSE, planeList |-> FALSE]
    /\ CostIdle
    /\ file = accounts
    /\ diskKinds = {"ok"}
    /\ failures = 0
    /\ last = NoCommand
    /\ pending = <<>>

\* a run command that does not look at the plane list
RunCommandAnyPlanes(acct) ==
    /\ pc = "idle"
    /\ IF acct \notin AccountNames
       THEN /\ Replied("run", acct, "no-account", FALSE)
            /\ UNCHANGED <<baseAirports, planeList, held, pc>>
       ELSE IF accounts[acct].baseAirports = <<>>
       THEN /\ Replied("run", acct, "no-bases", FALSE)
            /\ UNCHANGED <<baseAirports, planeList, held, pc>>
       ELSE /\ Replied("run", acct, "started", FALSE)
            /\ baseAirports' = accounts[acct].baseAirports
            /\ planeList' = accounts[acct].planeList
            /\ held' = [baseAirports |-> TRUE, planeList |-> TRUE]
            /\ pc' = "login"
    /\ UNCHANGED <<error, allAirports, baseIdx, destIdx, processedCount, routeScores,
                   allResults, fetchLog, accumulated, calls, progress>>
    /\ UNCHANGED <<accounts, testLimit, file, diskKinds, failures, pending>>
    /\ UNCHANGED <<azVars, envVars, costVars>>

\* part_000 lines 28-78: the run command up to its call of runAnalysis, which
\* is handed the account's own base list and plane list
RunCommand(acct) ==
    /\ pc = "idle"
    /\ IF acct \notin AccountNames
       THEN /\ Replied("run", acct, "no-account", FALSE)
            /\ UNCHANGED <<baseAirports, planeList, held, pc>>
       ELSE IF accounts[acct].baseAirports = <<>>
       THEN /\ Replied("run", acct, "no-bases", FALSE)
            /\ UNCHANGED <<baseAirports, planeList, held, pc>>
       ELSE IF accounts[acct].planeList = <<>>
       THEN /\ Replied("run", acct, "no-planes", FALSE)
            /\ UNCHANGED <<baseAirports, planeList, held, pc>>
       ELSE /\ Replied("run", acct, "started", FALSE)
            /\ baseAirports' = accounts[acct].baseAirports
            /\ planeList' = accounts[acct].planeList
            /\ held' = [baseAirports |-> TRUE, planeList |-> TRUE]
            /\ pc' = "login"
    /\ UNCHANGED <<error, allAirports, baseIdx, destIdx, processedCount, routeScores,
                   allResults, fetchLog, accumulated, calls, progress>>
    /\ UNCHANGED <<accounts, testLimit, file, diskKinds, failures, pending>>
    /\ UNCHANGED <<azVars, envVars, costVars>>

\* part_000 lines 80-109: runAnalysis is over; the results or the error of
\* the analysis are sent to the channel
RunCommandEnd ==
    /\ pc \in {"returned", "threw"}
    /\ last.cmd = "run" /\ last.reply = "started"
    /\ Replied("run", last.acct, IF pc = "returned" THEN "posted" ELSE "analysis-error",
               FALSE)
    /\ UNCHANGED <<file, diskKinds, failures, pending>>
    /\ UNCHANGED <<azVars, envVars, cfgVars, runVars, storeVars, costVars>>

RunCommandAny == \E acct \in CommandAccounts : RunCommand(acct)

NextRunCmd ==
    \/ RunCommandAny \/ RunCommandEnd
    \/ LoginFail \/ LoginOk
    \/ FetchAirportsFail \/ FetchAirportsOk
    \/ FetchModelsFail \/ FetchModelsOk
    \/ SkipBase \/ StartBase
    \/ SkipSelf \/ IssueFetch
    \/ FetchFailed \/ FetchReturned
    \/ DelayDone \/ RankBase \/ ReturnResults

SpecRunCmd == InitRunCmd /\ [][NextRunCmd]_vars

\* ------------------------------------------------ the cap of the run command
\* part_000 line 19: parseInt(process.env.TEST_AIRPORT_LIMIT, 10) || 0
TestLimitOf(env) ==
    LET n == parseInt10(env)
    IN  IF n.k = "nan" \/ n.v = 0 THEN 0 ELSE n.v

\* values of TEST_AIRPORT_LIMIT: unset, "0", "1", "2", "3", "5", "-1", "2x",
\* "x", " 1"
EnvLimits ==
    {<<>>, <<"0">>, <<"1">>, <<"2">>, <<"3">>, <<"5">>, <<"-", "1">>, <<"2", "x">>,
     <<"x">>, <<" ", "1">>}

\* the base lists of the capped runs
CapBaseConfigs ==
    {<<NumericEntry(AirportAt(1))>>,
     <<NumericEntry(AirportAt(1)), NumericEntry(AirportAt(2))>>,
     <<NumericEntry(AirportAt(NumAirports)), NumericEntry(UnknownAirport)>>,
     <<ObjectEntry(AirportAt(1), {}), NumericEntry(AirportAt(2))>>}

InitCap ==
    /\ AzIdle
    /\ srvAirports = AirportList(NumAirports)
    /\ srvKinds = {"fail", "good"}
    /\ sinkKinds = {"ok"}
    /\ baseAirports \in CapBaseConfigs
    /\ planeList = RunPlaneList
    /\ testLimit \in {TestLimitOf(env) : env \in EnvLimits}
    /\ RunStart
    /\ StoreIdle
    /\ CostIdle
    /\ CmdIdle

SpecCap == InitCap /\ [][Next]_vars

\* ------------------------------------------- a scan long enough to report
\* bound: the length of the airport list of the long scans
CadenceAirports == 51

\* the base lists of the long scans: the base is the 50th airport of the
\* list, the first one, or the second one after an entry that is skipped
CadenceBaseConfigs ==
    {<<NumericEntry(AirportAt(PROGRESS_EVERY))>>,
     <<NumericEntry(AirportAt(1)), ObjectEntry(AirportAt(2), {})>>,
     <<NumericEntry(UnknownAirport), NumericEntry(AirportAt(2))>>}

\* the server answers every request of a run, or none; the channel may fail
\* on any message
InitProgress ==
    /\ AzIdle
    /\ srvAirports = AirportList(CadenceAirports)
    /\ srvKinds \in {{"good"}, {"fail"}}
    /\ sinkKinds = {"ok", "fail"}
    /\ baseAirports \in CadenceBaseConfigs
    /\ planeList = RunPlaneList
    /\ testLimit = 0
    /\ RunStart
    /\ StoreIdle
    /\ CostIdle
    /\ CmdIdle

SpecProgress == InitProgress /\ [][Next]_vars

\* ------------------------------------------------------ claims: the scorer
Normalized(name) == ToLowerCase(Trim(name))

\* "matches the owned list" as section 4.2 states it
MatchesOwned(option, owned) ==
    \E i \in DOMAIN owned :
        \/ Has(owned[i].modelId) /\ owned[i].modelId[1] = option.modelId
        \/ /\ owned[i].modelName # <<>>
           /\ option.modelName # <<>>
           /\ Includes(Normalized(option.modelName), Normalized(owned[i].modelName))

InSeq(x, q) == \E i \in DOMAIN q : q[i] = x

AnalyzeReturned == aPc = "done" /\ analysis # <<>>

\* C5: whenever analyzeRoute returns a result, the winning option matches the
\* owned list and its maxFrequency is present and strictly greater than 0.
C5_WinnerOwnedAndPositive ==
    AnalyzeReturned =>
        /\ bestPlaneForRoute # <<>>
        /\ MatchesOwned(bestPlaneForRoute[1], userPlaneList)
        /\ Has(bestPlaneForRoute[1].maxFrequency)
        /\ bestPlaneForRoute[1].maxFrequency[1] > 0

\* C6: for a route with two or more viable options, the score analyzeRoute
\* returns is greater than or equal to the SCORE computed for every option
\* the loop scored (a NaN is not a score).
C6_ScoreIsMaximum ==
    (AnalyzeReturned /\ Len(viablePlanes) >= 2) =>
        \A i \in DOMAIN scored :
            scored[i].SCORE.k # "nan" => Ge(analysis[1].score, scored[i].SCORE)

\* C6 witness: a result over two scored options where the later one scored higher
C6_Witness ==
    /\ AnalyzeReturned
    /\ Len(viablePlanes) >= 2
    /\ \E i, j \in DOMAIN scored :
          /\ i < j
          /\ scored[i].SCORE.k = "num"
          /\ Gt(scored[j].SCORE, scored[i].SCORE)

CompetitorPrices == {routeData.otherLinks[i].economy : i \in DOMAIN routeData.otherLinks}

\* C7: the ticket price is the least economy price over the competitor offers
\* when there is one, and the suggested economy price when there is none;
\* competitors [500, 650] give 500, no competitors and suggested 420 give 420.
C7_TicketPrice ==
    ticketPrice # <<>> =>
        /\ CompetitorPrices # {} =>
              /\ ticketPrice[1] \in CompetitorPrices
              /\ \A p \in CompetitorPrices : ticketPrice[1] <= p
        /\ CompetitorPrices = {} => ticketPrice[1] = routeData.suggestedPrice
        /\ CompetitorPrices = {500, 650} => ticketPrice[1] = 500
        /\ (CompetitorPrices = {} /\ routeData.suggestedPrice = 420) => ticketPrice[1] = 420

\* C7 witness: the least price is not the first competitor's
C7_Witness ==
    /\ ticketPrice = <<500>>
    /\ Len(routeData.otherLinks) = 2
    /\ routeData.otherLinks[1].economy = 650

\* C8: an offered option is in the viable subset if and only if its model id
\* equals the id of some owned entry or its normalized name contains the
\* normalized name fragment of some owned entry.
C8_ViableIffMatches ==
    aPc \in {"loop", "done"} =>
        \A i \in DOMAIN routeData.modelPlanLinkInfo :
            InSeq(routeData.modelPlanLinkInfo[i], viablePlanes)
              <=> MatchesOwned(routeData.modelPlanLinkInfo[i], userPlaneList)

\* the profit numerator of a scored entry over its cost's denominator
ProfitOver(e, cost) ==
    ticketPrice[1] * e.plane.maxFrequency[1] * e.plane.capacity[1] * cost.d - cost.n

ScoredCost(e) ==
    TotalWeeklyCost(routeData, e.plane, ModelStats[e.plane.modelId],
                    ScoreAirports[1], ScoreAirports[2], ScoreBases)

\* C9: for every scored option with F > 0 and an available cost, SCORE is
\* (ticketPrice * F * capacity - weeklyCost) / F rounded to the nearest
\* integer: SCORE - 1/2 <= profit / F < SCORE + 1/2.
C9_ScoreFormula ==
    \A i \in DOMAIN scored :
        LET e == scored[i]
        IN  (e.SCORE.k = "num" /\ e.plane.maxFrequency[1] > 0) =>
                LET cost == ScoredCost(e)
                    F == e.plane.maxFrequency[1]
                IN  /\ (2 * e.SCORE.v - 1) * cost.d * F <= 2 * ProfitOver(e, cost)
                    /\ 2 * ProfitOver(e, cost) < (2 * e.SCORE.v + 1) * cost.d * F

\* C9 witness: a scored option with F > 0 whose profit per frequency has a
\* fraction of at least one half, so that rounding goes up
C9_Witness ==
    \E i \in DOMAIN scored :
        /\ scored[i].SCORE.k = "num"
        /\ scored[i].plane.maxFrequency[1] > 0
        /\ 2 * (ProfitOver(scored[i], ScoredCost(scored[i]))
                  % (ScoredCost(scored[i]).d * scored[i].plane.maxFrequency[1]))
             >= ScoredCost(scored[i]).d * scored[i].plane.maxFrequency[1]

\* ------------------------------------------------------- claims: the scan
\* the list base `iata` has accumulated: the running list while its loop is
\* on, the list recorded when its loop ended afterwards
AccumulatedOf(iata) ==
    IF pc \in {"dest", "fetch", "delay"} /\ CurBase.iata = iata THEN routeScores
    ELSE IF \E k \in DOMAIN accumulated : accumulated[k].iata = iata
    THEN accumulated[CHOOSE k \in DOMAIN accumulated : accumulated[k].iata = iata].list
    ELSE <<>>

HasScoreFor(list, toId) == \E k \in DOMAIN list : list[k].toAirportId = toId

\* an offer of this kind carries an owned option of positive frequency with a known spec
ScoreableKind(kind) ==
    \E o \in {ServerOffer(kind, 0, 0).modelPlanLinkInfo[k] :
                k \in DOMAIN ServerOffer(kind, 0, 0).modelPlanLinkInfo} :
        /\ MatchesOwned(o, planeList)
        /\ Has(o.maxFrequency) /\ o.maxFrequency[1] > 0
        /\ o.modelId \in DOMAIN ModelStats

\* C1: once login and the reference fetches have succeeded no error leaves
\* runAnalysis; a pair whose fetch failed contributes no RouteScore to its
\* base's accumulated list, and a scoreable pair whose fetch succeeded does.
C1_FaultIsolation ==
    /\ pc = "threw" => (error \in {"login", "airports", "models"} /\ fetchLog = <<>>)
    /\ \A i \in DOMAIN fetchLog :
          /\ fetchLog[i].res = "fail" =>
                ~HasScoreFor(AccumulatedOf(fetchLog[i].base), fetchLog[i].to)
          /\ (fetchLog[i].res \notin {"pending", "fail"} /\ ScoreableKind(fetchLog[i].res)) =>
                HasScoreFor(AccumulatedOf(fetchLog[i].base), fetchLog[i].to)

\* C1 witness: the run returned after a failed fetch for (A,B) that was
\* followed by a successful, scored fetch for (A,C)
C1_Witness ==
    /\ pc = "returned"
    /\ \E i, j \in DOMAIN fetchLog :
          /\ i < j
          /\ fetchLog[i].base = fetchLog[j].base
          /\ fetchLog[i].res = "fail"
          /\ fetchLog[j].res = "good"
          /\ HasScoreFor(AccumulatedOf(fetchLog[j].base), fetchLog[j].to)

\* C2: when login fails runAnalysis ends with that error, login was called
\* once, no reference fetch and no route-offer fetch was issued, and no
\* result map is returned.
C2_LoginFatal ==
    /\ calls.login <= 1
    /\ error = "login" =>
          /\ pc = "threw"
          /\ calls.login = 1
          /\ calls.airports = 0
          /\ calls.models = 0
          /\ fetchLog = <<>>
          /\ allResults = <<>>

\* C2 witness: a run whose login failed
C2_Witness == error = "login" /\ pc = "threw"

ExcludedIds(entry) == {x[2] : x \in entry.excl}

BaseEntryOf(iata) ==
    baseAirports[CHOOSE b \in DOMAIN baseAirports : baseAirports[b].iata = iata]

C4_Ranking ==
    \A k \in DOMAIN allResults :
        LET res == allResults[k].routes
            acc == accumulated[k].list
        IN  /\ accumulated[k].iata = allResults[k].iata
            /\ Len(res) <= 10
            /\ Len(res) = Min2(10, Len(acc))
            /\ \A i, j \in DOMAIN res : i < j => Ge(res[i].score, res[j].score)
            /\ \A i, j \in DOMAIN res : i # j => res[i] # res[j]
            /\ \A i \in DOMAIN res : InSeq(res[i], acc)
            /\ \A a \in DOMAIN acc :
                  ~InSeq(acc[a], res) => \A i \in DOMAIN res : Ge(res[i].score, acc[a].score)

\* C4 witness: 15 routes with distinct scores, accumulated out of order, of
\* which 10 are stored
C4_Witness ==
    \E k \in DOMAIN allResults :
        LET acc == accumulated[k].list
        IN  /\ Len(acc) = 15
            /\ \A i, j \in DOMAIN acc : i # j => acc[i].score # acc[j].score
            /\ \E i, j \in DOMAIN acc : i < j /\ Gt(acc[j].score, acc[i].score)
            /\ Len(allResults[k].routes) = 10

\* C10: no route offer is fetched from an airport to itself, and no stored
\* or running RouteScore of a base has the base's own airport as destination.
C10_NoSelfDestination ==
    /\ \A i \in DOMAIN fetchLog : fetchLog[i].from # fetchLog[i].to
    /\ \A k \in DOMAIN allResults :
          \A r \in DOMAIN allResults[k].routes :
              /\ allResults[k].routes[r].toAirportId # BaseEntryOf(allResults[k].iata).id
              /\ allResults[k].routes[r].toIata # allResults[k].iata
    /\ pc \in {"dest", "fetch", "delay"} =>
          \A r \in DOMAIN routeScores : routeScores[r].toAirportId # CurBase.id

\* C10 witness: a finished run in which a base that is itself in the scan
\* list got results
C10_Witness ==
    /\ pc = "returned"
    /\ \E k \in DOMAIN allResults :
          /\ allResults[k].routes # <<>>
          /\ \E d \in DOMAIN AirportsToScan :
                AirportsToScan[d].iata = allResults[k].iata

\* ------------------------------------------------------ claims: the store
\* C11: an excludelist_add or excludelist_delete on base A of an account
\* leaves every other base of that account and every base of every other
\* account as it was (its exclude set, its value), so the candidate list of
\* each of them is the same before and after.
C11_ExclusionBaseScoped ==
    [][\A acct \in CommandAccounts, baseIata \in CommandIatas, iata \in CommandIatas :
          (ExcludelistAdd(acct, baseIata, iata) \/ ExcludelistDelete(acct, baseIata, iata)) =>
              \A a \in AccountNames :
                  \A k \in DOMAIN accounts[a].baseAirports :
                      (a # acct \/ accounts[a].baseAirports[k].iata # baseIata) =>
                          /\ k \in DOMAIN accounts'[a].baseAirports
                          /\ accounts'[a].baseAirports[k].excl = accounts[a].baseAirports[k].excl
                          /\ accounts'[a].baseAirports[k] = accounts[a].baseAirports[k]
                          /\ CandidateList(srvAirports, accounts'[a].baseAirports[k])
                               = CandidateList(srvAirports, accounts[a].baseAirports[k])]_vars

\* C11 witness: airport X is excluded for base A of an account, and is excluded
\* neither for base B of that account nor for the base of the same code in
\* the other account
C11_Witness ==
    \E x \in CommandIatas :
        /\ \E e \in accounts["main"].baseAirports[1].excl : e[1] = x
        /\ \A e \in accounts["main"].baseAirports[2].excl : e[1] # x
        /\ accounts["main"].baseAirports[2].excl # {}
        /\ \A e \in accounts["alt"].baseAirports[1].excl : e[1] # x
        /\ accounts["alt"].baseAirports[1].iata = accounts["main"].baseAirports[1].iata

\* ------------------------------------------- claims: the scan, continued
\* C12: when runAnalysis returns, every base held as a record {id, exclude
\* set} whose airport id is in the reference airport list has an entry under
\* its IATA key in the returned map.
C12_EveryBaseScanned ==
    pc = "returned" =>
        \A b \in DOMAIN baseAirports :
            (baseAirports[b].fmt = "obj" /\ MapGet(allAirports, baseAirports[b].id) # <<>>) =>
                \E k \in DOMAIN allResults : allResults[k].iata = baseAirports[b].iata

\* ------------------------------------------ claims: the scorer, continued
\* every input of the Cost Model is there for this option
InputsComplete(plane) ==
    /\ plane.modelId \in DOMAIN ModelStats
    /\ Has(ModelStats[plane.modelId].fuelBurn)
    /\ Has(ModelStats[plane.modelId].price)
    /\ Has(ModelStats[plane.modelId].lifespan)
    /\ Has(ModelStats[plane.modelId].airplaneType)
    /\ Has(plane.duration)
    /\ Has(plane.capacity)

\* C13: a viable option that lacks a Cost Model input gets no numeric score
\* and is never the winner, and the viable options that lack nothing are
\* still scored.
C13_MissingInputExcluded ==
    /\ \A i \in DOMAIN scored :
          ~InputsComplete(scored[i].plane) => scored[i].SCORE.k = "nan"
    /\ bestPlaneForRoute # <<>> => InputsComplete(bestPlaneForRoute[1])
    /\ (aPc = "done" /\ loopIdx > Len(viablePlanes)) =>
          \A j \in DOMAIN viablePlanes :
              InputsComplete(viablePlanes[j]) =>
                  \E i \in DOMAIN scored :
                      scored[i].idx = j /\ scored[i].SCORE.k = "num"

\* C14: when analyzeRoute is done with an offer that has no viable owned
\* option, or none whose frequency is present and strictly positive, it has
\* returned no result.
C14_ScoringEmptySilent ==
    (aPc = "done"
       /\ \A j \in DOMAIN FilterViable(routeData.modelPlanLinkInfo, userPlaneList) :
             LET plane == FilterViable(routeData.modelPlanLinkInfo, userPlaneList)[j]
             IN  ~(Has(plane.maxFrequency) /\ plane.maxFrequency[1] > 0))
      => analysis = <<>>

\* C15: when the n-th route-offer fetch of a run is issued, n - 1 delays have
\* been completed: one after each earlier fetch, whatever its outcome and
\* whether or not the next fetch belongs to another base.
C15_DelayBetweenFetches ==
    /\ \A i \in DOMAIN fetchLog : fetchLog[i].delays = i - 1
    /\ calls.delay <= Len(fetchLog)
    /\ pc \in {"fetch", "delay"} => calls.delay = Len(fetchLog) - 1

\* C15 witness: a returned run in which a failed fetch was the last of its
\* base and a fetch for the next base followed, and a scored fetch was
\* followed by another fetch of the same base
C15_Witness ==
    /\ pc = "returned"
    /\ \E i \in DOMAIN fetchLog :
          /\ i + 1 \in DOMAIN fetchLog
          /\ fetchLog[i].res = "fail"
          /\ fetchLog[i + 1].base # fetchLog[i].base
    /\ \E i \in DOMAIN fetchLog :
          /\ i + 1 \in DOMAIN fetchLog
          /\ fetchLog[i].scored
          /\ fetchLog[i + 1].base = fetchLog[i].base

\* C16: at most one route-offer fetch of a run is outstanding, and it is the
\* latest one; when a fetch is issued every earlier fetch has returned and
\* the RouteScore of every earlier scored pair is in its base's list.
C16_OneFetchInFlight ==
    /\ \A i \in DOMAIN fetchLog :
          fetchLog[i].res = "pending" => (i = Len(fetchLog) /\ pc = "fetch")
    /\ pc = "fetch" => (fetchLog # <<>> /\ fetchLog[Len(fetchLog)].res = "pending")
    /\ \A i \in DOMAIN fetchLog :
          fetchLog[i].scored =>
              HasScoreFor(AccumulatedOf(fetchLog[i].base), fetchLog[i].to)

\* C16 witness: a fetch is outstanding after an earlier fetch of the same
\* base returned and was scored
C16_Witness ==
    /\ pc = "fetch"
    /\ Len(fetchLog) >= 2
    /\ fetchLog[Len(fetchLog) - 1].scored
    /\ fetchLog[Len(fetchLog) - 1].base = fetchLog[Len(fetchLog)].base

\* C17: fetches and stored lists follow the declaration order of the base
\* list; while a base is scanned every earlier scannable base already has
\* its ranked list stored and no later base has one; the map is returned
\* only when every base has been passed and every scannable base is ranked.
C17_BaseOrder ==
    /\ \A i, j \in DOMAIN fetchLog :
          i < j => KeyIndex(baseAirports, fetchLog[i].base)
                     <= KeyIndex(baseAirports, fetchLog[j].base)
    /\ \A i, j \in DOMAIN allResults :
          i < j => KeyIndex(baseAirports, allResults[i].iata)
                     < KeyIndex(baseAirports, allResults[j].iata)
    /\ pc \in {"base", "dest", "fetch", "delay", "returned"} =>
          /\ \A i \in DOMAIN fetchLog :
                KeyIndex(baseAirports, fetchLog[i].base) <= baseIdx
          /\ \A k \in DOMAIN allResults :
                KeyIndex(baseAirports, allResults[k].iata) < baseIdx
          /\ \A b \in DOMAIN baseAirports :
                (b < baseIdx /\ LookupBase(allAirports, baseAirports[b]) # <<>>) =>
                    \E k \in DOMAIN allResults : allResults[k].iata = baseAirports[b].iata
    /\ pc = "returned" => baseIdx > Len(baseAirports)

\* C17 witness: a returned run over two scannable bases, with fetches for both
C17_Witness ==
    /\ pc = "returned"
    /\ Len(allResults) = 2
    /\ \E i, j \in DOMAIN fetchLog :
          /\ fetchLog[i].base = baseAirports[1].iata
          /\ fetchLog[j].base = baseAirports[2].iata

\* every (base, destination) pair of the run has been fetched and answered
PairsExhausted ==
    \A b \in DOMAIN baseAirports :
        LookupBase(allAirports, baseAirports[b]) # <<>> =>
            \A d \in DOMAIN AirportsToScan :
                ~IsSameAirport(baseAirports[b], AirportsToScan[d].id) =>
                    \E i \in DOMAIN fetchLog :
                        /\ fetchLog[i].base = baseAirports[b].iata
                        /\ fetchLog[i].to = AirportsToScan[d].id
                        /\ fetchLog[i].res # "pending"

RunEnded == pc \in {"returned", "threw"}

\* C18 as stated: the run eventually ends; it returns only after every pair
\* is exhausted, and the only failure that ends it is a failed login.
C18_OnlyLoginFatal ==
    /\ <>RunEnded
    /\ [](pc = "returned" => PairsExhausted)
    /\ [](pc = "threw" => error = "login")

\* C18, amended: the run eventually ends; it returns only after every pair
\* is exhausted, and the only failures that end it are a failed login, a
\* failed airport-list fetch and a failed airplane-model fetch, each before
\* the first pair is fetched.
C18_Termination ==
    /\ <>RunEnded
    /\ [](pc = "returned" => PairsExhausted)
    /\ [](pc = "threw" => (error \in {"login", "airports", "models"} /\ fetchLog = <<>>))
    /\ [](error # "none" => pc = "threw")

\* C18 witness: a run that returned after a failed fetch and a scored one
C18_Witness ==
    /\ pc = "returned"
    /\ PairsExhausted
    /\ \E i \in DOMAIN fetchLog : fetchLog[i].res = "fail"
    /\ \E i \in DOMAIN fetchLog : fetchLog[i].scored

\* ------------------------------------------------ claims: run and commands
\* C19: every pair of a run is scored against the plane list the account had
\* when the run started, and the bases are taken from the base list it had
\* then, whatever planelist and baselist commands are handled in between.
C19_RunStartSnapshot ==
    /\ \A i \in DOMAIN fetchLog :
          fetchLog[i].res \notin {"pending", "fail"} =>
              fetchLog[i].planes = StoreAccounts["main"].planeList
    /\ pc \in {"base", "dest", "fetch", "delay"} =>
          baseAirports = StoreAccounts["main"].baseAirports

\* C20: no step of runAnalysis changes the base list or the owned-aircraft
\* list it was handed, so both are what they were at the call when it ends,
\* normally or with an error.
C20_ConfigUntouched ==
    [][baseAirports' = baseAirports /\ planeList' = planeList]_vars

\* C20 witness: a run that returned after scoring a pair of a base
C20_Witness ==
    /\ pc = "returned"
    /\ \E k \in DOMAIN allResults : allResults[k].routes # <<>>
    /\ \E i \in DOMAIN fetchLog : fetchLog[i].scored /\ fetchLog[i].planes = planeList

\* ------------------------------------------- claims: calls and candidates
\* C21: in every run login is called at most once and first, the airport list
\* and the model list are each fetched at most once, in that order, and all
\* three exactly once before the first route-offer fetch and in a run that
\* returns; the airport table in use during the scan is the one fetched.
C21_ReferenceDataOnce ==
    /\ calls.login <= 1
    /\ calls.airports <= calls.login
    /\ calls.models <= calls.airports
    /\ (fetchLog # <<>> \/ pc = "returned") =>
          (calls.login = 1 /\ calls.airports = 1 /\ calls.models = 1)
    /\ \A i \in DOMAIN fetchLog :
          \E k \in DOMAIN srvAirports : srvAirports[k].id = fetchLog[i].to
    /\ pc \in {"base", "dest", "fetch", "delay", "returned"} => allAirports = srvAirports

\* C21 witness: a run that scanned two bases and returned
C21_Witness ==
    /\ pc = "returned"
    /\ Len(allResults) = 2
    /\ \E i, j \in DOMAIN fetchLog : fetchLog[i].base # fetchLog[j].base
    /\ calls.login = 1 /\ calls.airports = 1 /\ calls.models = 1

\* the route-offer fetches issued for the pair (base iata, destination id)
FetchesOf(iata, toId) ==
    {i \in DOMAIN fetchLog : fetchLog[i].base = iata /\ fetchLog[i].to = toId}

\* C22: no pair is fetched twice, and once the scan of a base has ended every
\* airport of the list to scan other than the base itself has been fetched
\* exactly once from that base, whether the call failed or not.
C22_OneFetchPerPair ==
    /\ \A i, j \in DOMAIN fetchLog :
          (fetchLog[i].base = fetchLog[j].base /\ fetchLog[i].to = fetchLog[j].to) => i = j
    /\ \A k \in DOMAIN accumulated :
          \A b \in DOMAIN baseAirports :
              baseAirports[b].iata = accumulated[k].iata =>
                  \A d \in DOMAIN AirportsToScan :
                      ~IsSameAirport(baseAirports[b], AirportsToScan[d].id) =>
                          Cardinality(FetchesOf(accumulated[k].iata, AirportsToScan[d].id)) = 1

\* C22 witness: a run has returned, a fetch of a scanned base failed and the
\* scan went on to a later destination
C22_Witness ==
    /\ pc = "returned"
    /\ \E i, j \in DOMAIN fetchLog :
          /\ i < j
          /\ fetchLog[i].res = "fail"
          /\ fetchLog[i].base = fetchLog[j].base
          /\ Cardinality(FetchesOf(fetchLog[i].base, fetchLog[i].to)) = 1

\* the destination ids fetched from base `iata`, in the order of the requests
RECURSIVE FetchedFrom(_, _)
FetchedFrom(iata, log) ==
    IF log = <<>> THEN <<>>
    ELSE (IF Head(log).base = iata THEN <<Head(log).to>> ELSE <<>>)
         \o FetchedFrom(iata, Tail(log))

\* the first n ids of the reference list without the id of the base
RECURSIVE FirstIdsWithout(_, _, _)
FirstIdsWithout(ref, n, baseId) ==
    IF n = 0 \/ ref = <<>> THEN <<>>
    ELSE (IF Head(ref).id = baseId THEN <<>> ELSE <<Head(ref).id>>)
         \o FirstIdsWithout(Tail(ref), n - 1, baseId)

\* C23: once the scan of a base has ended, the destinations fetched from it
\* are, in reference order, the first N airports of the reference list minus
\* the base itself when the cap N is positive and smaller than the list, and
\* every airport of the list minus the base itself when the cap is 0 (also
\* from an unset variable) or at least the length of the list.
C23_DestinationCap ==
    /\ TestLimitOf(<<>>) = 0
    /\ \A k \in DOMAIN accumulated :
          \A b \in DOMAIN baseAirports :
              baseAirports[b].iata = accumulated[k].iata =>
                  LET fetched == FetchedFrom(accumulated[k].iata, fetchLog)
                      len == Len(srvAirports)
                  IN  /\ (testLimit > 0 /\ testLimit < len) =>
                            fetched = FirstIdsWithout(srvAirports, testLimit, baseAirports[b].id)
                      /\ (testLimit = 0 \/ testLimit >= len) =>
                            fetched = FirstIdsWithout(srvAirports, len, baseAirports[b].id)

\* C23 witness: a cap of 2 on a longer list, a base that is not among the
\* first two airports, and exactly the first two airports fetched from it
C23_Witness ==
    /\ testLimit = 2
    /\ Len(srvAirports) > 2
    /\ \E k \in DOMAIN accumulated :
          /\ accumulated[k].iata = AirportAt(NumAirports).iata
          /\ FetchedFrom(accumulated[k].iata, fetchLog) = <<AirportAt(1).id, AirportAt(2).id>>

\* ---------------------------------------------------- claims: progress
\* the count reports the sink was handed for base `iata` with count n
CountReports(iata, n) ==
    {i \in DOMAIN progress :
        progress[i].kind = "count" /\ progress[i].base = iata /\ progress[i].count = n}

\* C24: during the scan of a base, for every multiple of 50 the count of
\* processed destinations has reached, exactly one report carrying that count
\* has been handed to the sink; it is there before the scan moves on.
C24_ProgressCadence ==
    pc \in {"dest", "fetch", "delay"} =>
        \A n \in 1..processedCount :
            n % PROGRESS_EVERY = 0 => Cardinality(CountReports(CurBase.iata, n)) = 1

\* the reports of one kind the sink was handed
ReportsOf(kind) == {i \in DOMAIN progress : progress[i].kind = kind}

\* C25: a report was handed to the sink before the login call, before the
\* fetch of the airport list and before the fetch of the model list, and for
\* every base whose scan has begun a report naming it was handed to the sink
\* before the first route-offer fetch from that base.
C25_ProgressAtTransitions ==
    /\ calls.login >= 1 =>
          \E i \in ReportsOf("login") : progress[i].calls.login = 0
    /\ calls.airports >= 1 =>
          \E i \in ReportsOf("airports") :
              progress[i].calls.login = 1 /\ progress[i].calls.airports = 0
    /\ calls.models >= 1 =>
          \E i \in ReportsOf("models") :
              progress[i].calls.airports = 1 /\ progress[i].calls.models = 0
    /\ \A f \in DOMAIN fetchLog :
          \E i \in ReportsOf("base") :
              progress[i].base = fetchLog[f].base /\ progress[i].fetches < f
    /\ pc \in {"dest", "fetch", "delay"} =>
          \E i \in ReportsOf("base") : progress[i].base = CurBase.iata
    /\ \A k \in DOMAIN accumulated :
          \E i \in ReportsOf("base") : progress[i].base = accumulated[k].iata

\* C25 witness: a run returned after fetching from a base that was not the
\* first entry of the base list, and the report of that base was not delivered
C25_Witness ==
    /\ pc = "returned"
    /\ Len(progress) >= 5
    /\ \E f \in DOMAIN fetchLog, i \in ReportsOf("base") :
          /\ progress[i].base = fetchLog[f].base
          /\ fetchLog[f].base = baseAirports[2].iata
          /\ ~progress[i].ok

\* the RouteScores that the answers recorded in the fetch log give base
\* `entry`, in the order of the requests
RECURSIVE ScoresFromLog(_, _)
ScoresFromLog(entry, log) ==
    IF log = <<>> THEN <<>>
    ELSE LET e == Head(log)
             an == IF e.base = entry.iata /\ e.res \notin {"pending", "fail"}
                   THEN analyzeRoute(ServerOffer(e.res, e.from, e.to), planeList,
                                     ModelStats, srvAirports, baseAirports)
                   ELSE <<>>
             dest == MapGet(srvAirports, e.to)
         IN  (IF an # <<>>
              THEN <<RouteScoreOf(an[1], LookupBase(srvAirports, entry)[1], dest[1])>>
              ELSE <<>>)
             \o ScoresFromLog(entry, Tail(log))

\* the bases of the list that are scanned: their value finds an airport
ScannedBases ==
    SelectSeq(baseAirports, LAMBDA entry : LookupBase(srvAirports, entry) # <<>>)

\* C26: whatever happens to the progress reports, the run is never ended by
\* one, a run that returns has fetched every pair of every scanned base, and
\* the map it returns holds, for every scanned base, the ten best of the
\* scores that the answers to that base's fetches give.
C26_SinkFailuresSwallowed ==
    /\ error \in {"none", "login", "airports", "models"}
    /\ pc = "returned" =>
          /\ Len(allResults) = Len(ScannedBases)
          /\ \A k \in DOMAIN allResults :
                /\ allResults[k].iata = ScannedBases[k].iata
                /\ allResults[k].routes
                     = RankTop(ScoresFromLog(ScannedBases[k], fetchLog))
                /\ FetchedFrom(ScannedBases[k].iata, fetchLog)
                     = FirstIdsWithout(srvAirports, Len(srvAirports), ScannedBases[k].id)

\* C26 witness: a run returned scored routes although the login report, the
\* report of a base and a count report all failed to be delivered
C26_Witness ==
    /\ pc = "returned"
    /\ \E k \in DOMAIN allResults : allResults[k].routes # <<>>
    /\ \E i \in ReportsOf("login") : ~progress[i].ok
    /\ \E i \in ReportsOf("base") : ~progress[i].ok
    /\ \E i \in ReportsOf("count") : ~progress[i].ok

\* ------------------------------------------- claims: the scorer, ties
\* C28: the plane analyzeRoute returns is the first option, in the order of
\* the offer, whose SCORE equals the returned score; later options with the
\* same score do not replace it.
C28_FirstMaximumWins ==
    AnalyzeReturned =>
        \E i \in DOMAIN scored :
            /\ scored[i].SCORE = analysis[1].score
            /\ \A j \in DOMAIN scored : j < i => scored[j].SCORE # analysis[1].score
            /\ \A j \in DOMAIN scored : scored[j].idx < scored[i].idx => j < i
            /\ bestPlaneForRoute = <<scored[i].plane>>
            /\ analysis[1].planeName = scored[i].plane.modelName

\* C28 witness: two options of different names share the returned score and
\* the result carries the name of the earlier one
C28_Witness ==
    /\ AnalyzeReturned
    /\ \E i, j \in DOMAIN scored :
          /\ i < j
          /\ scored[i].SCORE = analysis[1].score
          /\ scored[j].SCORE = analysis[1].score
          /\ scored[i].plane.modelName # scored[j].plane.modelName
          /\ analysis[1].planeName = scored[i].plane.modelName

\* ---------------------------------------------- claims: the cost model
\* C29: for non-negative distance, duration, capacity, frequency, fuel burn
\* and price and a positive lifespan, each of the six terms is greater than
\* or equal to 0 and the total weekly cost is the sum of the six.
C29_TermsAdditiveNonNegative ==
    costOut # <<>> =>
        LET t == costOut[1]
        IN  /\ t.fuelCost.n >= 0 /\ t.fuelCost.d > 0
            /\ t.crewCost.n >= 0 /\ t.crewCost.d > 0
            /\ t.airportFees.n >= 0 /\ t.airportFees.d > 0
            /\ t.depreciation.n >= 0 /\ t.depreciation.d > 0
            /\ t.maintenance.n >= 0 /\ t.maintenance.d > 0
            /\ t.serviceSupplies.n >= 0 /\ t.serviceSupplies.d > 0
            /\ t.totalWeeklyCost
                 = FracAdd(FracAdd(FracAdd(FracAdd(FracAdd(t.fuelCost, t.crewCost),
                                                   t.airportFees),
                                           t.depreciation),
                                   t.maintenance),
                           t.serviceSupplies)

\* C29 witness: costs computed for a distance in the band where the third
\* ascent segment is negative, all six terms positive
C29_Witness ==
    /\ costOut # <<>>
    /\ costIn[1].distance = 600
    /\ costOut[1].fuelCost.n > 0
    /\ costOut[1].crewCost.n > 0
    /\ costOut[1].airportFees.n > 0
    /\ costOut[1].depreciation.n > 0
    /\ costOut[1].maintenance.n > 0
    /\ costOut[1].serviceSupplies.n > 0

\* C30, as the spec states it: the weekly crew cost equals capacity times the
\* one-way duration in hours times the crew rate times the weekly frequency.
C30_CrewCostOneWay ==
    costOut # <<>> =>
        costOut[1].crewCost
          = Frac(costIn[1].capacity * costIn[1].duration * CREW_UNIT_COST
                   * costIn[1].frequency, 60)

\* C30, amended: the weekly crew cost equals twice the capacity times the
\* one-way duration in hours times the crew rate times the weekly frequency,
\* the factor 2 standing for the round trip.
C30_CrewCostRoundTrip ==
    costOut # <<>> =>
        /\ costOut[1].crewCost.d > 0
        /\ costOut[1].crewCost.n * 60
             = 2 * costIn[1].capacity * costIn[1].duration * CREW_UNIT_COST
                 * costIn[1].frequency * costOut[1].crewCost.d

\* C30 witness: capacity 3, 90 minutes, 3 flights a week cost 324
C30_Witness ==
    /\ costOut # <<>>
    /\ costIn[1].capacity = 3
    /\ costIn[1].duration = 90
    /\ costIn[1].frequency = 3
    /\ costOut[1].crewCost = [n |-> 324, d |-> 1]

\* ------------------------------------------- claims: the scorer, finite scores
\* C31: every score analyzeRoute returns is a finite integer, never NaN and
\* never infinite, whatever the offer and the model records carry
C31_ScoresFinite ==
    analysis # <<>> => analysis[1].score.k = "num"

\* ---------------------------------------------- claims: the commands in full
\* C32: a planelist, baselist or excludelist command issued for one account
\* leaves the plane list, base list and exclude sets of every other account
\* unchanged: whenever a step changes an account's lists, the handler that
\* replied in that step was handling a command for that account.
C32_OtherAccountsUntouched ==
    [][\A b \in AccountNames :
          accounts'[b] # accounts[b] => last'.acct = b]_vars

C32_Witness ==
    /\ last.cmd = "excludelist_add"
    /\ last.acct = "main"
    /\ last.reply = "added"
    /\ Len(accounts["main"].planeList) = 1
    /\ accounts["main"] # CmdAccountsAtStart["main"]
    /\ accounts["alt"] = CmdAccountsAtStart["alt"]

\* C33: after any sequence of planelist_add and planelist_delete commands every
\* entry of an account's plane list has exactly one field populated: a numeric
\* model id and no name, or a trimmed lower-cased name and no id.
C33_EntryShape ==
    \A a \in DOMAIN accounts :
        \A i \in DOMAIN accounts[a].planeList :
            LET p == accounts[a].planeList[i]
            IN  \/ Has(p.modelId) /\ p.modelName = <<>>
                \/ /\ ~Has(p.modelId)
                   /\ p.modelName # <<>>
                   /\ p.modelName = ToLowerCase(Trim(p.modelName))

\* the entry a planelist_add has pushed is the last one of the list
AddedPlane(a) == accounts'[a].planeList[Len(accounts'[a].planeList)]

\* C36: an account's plane list never holds two entries with the same model id
\* or two with the same name, and a planelist_add never adds an entry the list
\* already holds.
C36_NoDuplicatePlanes ==
    [][\A a \in AccountNames :
          /\ \A i, j \in DOMAIN accounts'[a].planeList :
                LET p == accounts'[a].planeList[i]
                    q == accounts'[a].planeList[j]
                IN  i # j => /\ ~(Has(p.modelId) /\ p.modelId = q.modelId)
                             /\ ~(p.modelName # <<>> /\ p.modelName = q.modelName)
          /\ (Len(accounts'[a].planeList) > Len(accounts[a].planeList)) =>
                \A i \in DOMAIN accounts[a].planeList :
                    accounts[a].planeList[i] # AddedPlane(a)]_vars

\* the step ends the i-th suspended handler
Ended(i) ==
    /\ Len(pending') = Len(pending) - 1
    /\ \A j \in DOMAIN pending' :
          /\ pending'[j].acct = Others(i)[j].acct
          /\ pending'[j].iata = Others(i)[j].iata
          /\ pending'[j].baseAirports = Others(i)[j].baseAirports

\* C34: when a baselist_add replies that its airport was added, that airport
\* and every airport another baselist_add of the same account reported added
\* while this one was suspended (and no baselist_delete removed since) are in
\* the account's base list.
C34_NoLostBase ==
    [][\A i \in DOMAIN pending :
          (Ended(i) /\ last'.cmd = "baselist_add" /\ last'.reply = "added") =>
              \A x \in pending[i].meanwhile \cup {pending[i].iata} :
                  KeyIndex(accounts'[pending[i].acct].baseAirports, x) # 0]_vars

\* C35: after a command handler has ended, the cached state that loadState
\* returns equals the state last written to bot_state.json, also when a write
\* of saveState has failed.
C35_CacheEqualsFile ==
    last.cmd # "none" => accounts = file

\* the replies of the rejected commands: no such account, no such base, a
\* baselist_add of an unknown or listed code, a delete of what is not there
Rejected(l) ==
    \/ l.reply \in {"no-account", "no-base"}
    \/ l.cmd = "baselist_add" /\ l.reply \in {"unknown-airport", "already"}
    \/ /\ l.cmd \in {"planelist_delete", "baselist_delete", "excludelist_delete"}
       /\ l.reply = "not-found"

\* C37: a command that is rejected replies with its error or not-found
\* message, leaves the stored state as it was, and does not call saveState.
C37_RejectedChangesNothing ==
    [][Rejected(last') =>
          /\ accounts' = accounts
          /\ file' = file
          /\ ~last'.saved]_vars


\* ------------------------------------------------ claims: the run command
\* the run command may call runAnalysis for this account
Runnable(acct) ==
    /\ acct \in AccountNames
    /\ accounts[acct].baseAirports # <<>>
    /\ accounts[acct].planeList # <<>>

\* C38: the run command calls runAnalysis only when the named account exists
\* and both its base list and its plane list are non-empty; otherwise it
\* replies with an error, and no login and no fetch is issued.
C38_RunPreconditions ==
    /\ pc # "idle" =>
          /\ last.cmd = "run"
          /\ Runnable(last.acct)
          /\ baseAirports = accounts[last.acct].baseAirports
          /\ planeList = accounts[last.acct].planeList
    /\ last.cmd = "run" /\ ~Runnable(last.acct) =>
          /\ last.reply \in {"no-account", "no-bases", "no-planes"}
          /\ pc = "idle"
          /\ calls = [login |-> 0, airports |-> 0, models |-> 0, delay |-> 0]
          /\ fetchLog = <<>>

\* a run was refused for its empty plane list, though the account has a base
C38_Witness ==
    /\ last = [cmd |-> "run", acct |-> "alt", reply |-> "no-planes", saved |-> FALSE]
    /\ accounts["alt"].baseAirports # <<>>
    /\ pc = "idle"
    /\ calls.login = 0


\* ------------------------------------------------ claims: result identity
\* the airport of the base stored under key b
BaseAirportOf(b) == MapGet(allAirports, baseAirports[KeyIndex(baseAirports, b)].id)

\* the request f, issued for base b, brought the offer that r was scored from
ProducedBy(r, f, b) ==
    /\ f.base = b
    /\ f.scored
    /\ f.to = r.toAirportId
    /\ LET dest == MapGet(allAirports, f.to)
           an == analyzeRoute(ServerOffer(f.res, f.from, f.to), f.planes, ModelStats,
                              allAirports, baseAirports)
       IN  /\ dest # <<>>
           /\ r.toIata = dest[1].iata
           /\ r.toCity = dest[1].city
           /\ an # <<>>
           /\ r.score = an[1].score

\* C39: for every base key b of the result map and every RouteScore r under
\* b, r's origin IATA and city are those of b's airport, r's destination IATA
\* and city are those of the airport whose route offer produced r's score,
\* and no two RouteScores under b have the same destination.
C39_ResultIdentity ==
    \A k \in DOMAIN allResults :
        LET b == allResults[k].iata
            routes == allResults[k].routes
        IN  /\ KeyIndex(baseAirports, b) # 0
            /\ BaseAirportOf(b) # <<>>
            /\ \A n \in DOMAIN routes :
                  /\ routes[n].fromAirportId = BaseAirportOf(b)[1].id
                  /\ routes[n].fromIata = BaseAirportOf(b)[1].iata
                  /\ routes[n].fromCity = BaseAirportOf(b)[1].city
                  /\ \E i \in DOMAIN fetchLog : ProducedBy(routes[n], fetchLog[i], b)
            /\ \A n1, n2 \in DOMAIN routes :
                  n1 # n2 => /\ routes[n1].toIata # routes[n2].toIata
                             /\ routes[n1].toAirportId # routes[n2].toAirportId

\* a run has returned a map in which one base has two routes
C39_Witness ==
    /\ pc = "returned"
    /\ \E k \in DOMAIN allResults : Len(allResults[k].routes) >= 2

====
